---- MODULE Spec2Model ----
(***************************************************************************)
(* Model of the US tax chat bot: the conversation session (ChatManager,    *)
(* src/src/chat_functions.py) and the retrieval orchestrator               *)
(* (RetrievalSystem, src/src/retrieval_system.py).                         *)
(*                                                                         *)
(* Spec       the session: send_message / reset_chat / get_chat_stats /    *)
(*            get_chat_history, one call in flight at a time.              *)
(* SpecQuery  one process_query call taken step by step over bounded       *)
(*            search results and context budgets.                          *)
(***************************************************************************)
EXTENDS Integers, Sequences, FiniteSets, TLC

VARIABLES
    chat_history,      \* ChatManager.chat_history: list of {role, content}
    retrieval_system,  \* ChatManager.retrieval_system: "None" or "set"
    vector_database,   \* ChatManager.vector_database: "None" or "set"
    pc,                \* per caller: position inside send_message
    message,           \* per caller: the message argument of the send in flight
    answer,            \* per caller: result['answer'] of the send in flight
    histAtCall,        \* per caller: history as it stood when send was called
    orchHistory,       \* per caller: chat_history handed to process_query
    lastOp,            \* the last call that returned: [op, ret, raised, pre]
    exchanges,         \* <<message, returned answer>> of the sends that
                       \* returned an answer since creation or the last reset
    nSends,            \* number of send calls started
    nFaults,           \* number of failures injected so far
    q,                 \* the process_query call of SpecQuery
    ctx,               \* the create_context_from_documents call of SpecContext
    emb,               \* the generate_embeddings call of SpecEmbed
    ing,               \* the process_uploaded_files run of SpecIngest
    store,             \* the vector store collection: chunk id -> record
    progress,          \* the progress file and the records written to it
    poll,              \* the status polls answered during the run
    db,                \* the VectorDatabase calls of SpecStore
    fn,                \* the call of a pure function under check
    web                \* the web server's upload session and its workers

vars == <<chat_history, retrieval_system, vector_database, pc, message, answer,
          histAtCall, orchHistory, lastOp, exchanges, nSends, nFaults, q, ctx,
          emb, ing, store, progress, poll, db, fn, web>>

ingestVars == <<ing, store, progress, poll>>

callVars == <<db, fn, web>>

sessionVars == <<chat_history, retrieval_system, vector_database, pc, message,
                 answer, histAtCall, orchHistory, lastOp, exchanges, nSends,
                 nFaults>>

-----------------------------------------------------------------------------
(* Bounds *)

MaxSends == 12      \* send calls per run
MaxFaults == 2      \* injected failures per run
MaxDocs == 3         \* search results per query
MaxTexts == 4        \* texts handed to one generate_embeddings call
MaxBatch == 3        \* batch_size of one generate_embeddings call
MaxFiles == 3        \* file paths handed to one process_uploaded_files run
MaxChunks == 2       \* chunks handed to one add_chunks call
MaxOps == 3          \* VectorDatabase calls in a row

Callers == {1, 2}

(* Program constants *)

max_history == 20          \* chat_functions.py:81
threshold == 300           \* retrieval_system.py:78, 0.3 in thousandths
default_max_context_length == 15000   \* retrieval_system.py:88
min_context_length == 100  \* retrieval_system.py:155

None == "None"

-----------------------------------------------------------------------------
(* Exceptions: a call either returns a value or raises *)

Ok(v) == [exc |-> FALSE, val |-> v]
Raise(e) == [exc |-> TRUE, val |-> e]

(* try: body / except Exception: return handlerVal *)
TryExcept(r, handlerVal) == IF r.exc THEN Ok(handlerVal) ELSE r

-----------------------------------------------------------------------------
(* Strings *)

Min(a, b) == IF a < b THEN a ELSE b

Digits3(n) ==
    (IF n < 10 THEN "00" ELSE IF n < 100 THEN "0" ELSE "") \o ToString(n)

(* f"{doc_score:.3f}" for a score held in thousandths *)
Fmt3(score) == ToString(score \div 1000) \o "." \o Digits3(score % 1000)

RECURSIVE Join(_, _)
(* sep.join(parts) *)
Join(parts, sep) ==
    IF Len(parts) = 0 THEN ""
    ELSE IF Len(parts) = 1 THEN parts[1]
    ELSE parts[1] \o sep \o Join(Tail(parts), sep)

(* str.strip() *)
IsSpace(ch) == ch \in {" ", "\n", "\t", "\r"}

RECURSIVE LStrip(_)
LStrip(str) ==
    IF Len(str) > 0 /\ IsSpace(SubSeq(str, 1, 1))
    THEN LStrip(SubSeq(str, 2, Len(str))) ELSE str

RECURSIVE RStrip(_)
RStrip(str) ==
    IF Len(str) > 0 /\ IsSpace(SubSeq(str, Len(str), Len(str)))
    THEN RStrip(SubSeq(str, 1, Len(str) - 1)) ELSE str

Strip(str) == LStrip(RStrip(str))

RECURSIVE SumLen(_)
SumLen(parts) ==
    IF Len(parts) = 0 THEN 0 ELSE Len(parts[1]) + SumLen(Tail(parts))

-----------------------------------------------------------------------------
(* RetrievalSystem *)

Faults == {"none", "search", "context", "generate"}

GenApology ==
    "I apologize, but I encountered an error while generating a response. Please try again."
QueryApology ==
    "I apologize, but I encountered an error while processing your query. Please try again."
InitError ==
    "Error: Unable to initialize chat components. Please check your configuration."
SendApology(e) ==
    "I apologize, but I encountered an error while processing your message: " \o e

(* VectorDatabase.search_similar: the store's ranked results, or [] when the
   search throws (the exception is caught inside search_similar). *)
search_similar(storeResults, fault) ==
    TryExcept(IF fault = "search" THEN Raise("search failed")
              ELSE Ok(storeResults),
              <<>>)

(* the relevance test of retrieve_documents *)
IsRelevant(similarity_score) == similarity_score > threshold

(* RetrievalSystem.retrieve_documents *)
retrieve_documents(storeResults, fault) ==
    LET results == search_similar(storeResults, fault)
        body == IF results.exc THEN results
                ELSE Ok(SelectSeq(results.val,
                                  LAMBDA doc : IsRelevant(doc.similarity_score)))
    IN  TryExcept(body, <<>>)

(* source attribution header and formatted entry of documents[i] (i from 1,
   so the label "Document {i+1}" of the 0-based loop is ToString(i)) *)
SourceInfo(i, doc) ==
    LET metadata == doc.metadata
        doc_source == IF "source_file" \in DOMAIN metadata
                      THEN metadata.source_file ELSE "Unknown Document"
    IN  "[Document " \o ToString(i) \o ": " \o doc_source
        \o (IF "page_number" \in DOMAIN metadata
            THEN ", Page " \o ToString(metadata.page_number) ELSE "")
        \o (IF "chunk_index" \in DOMAIN metadata
            THEN ", Section " \o ToString(metadata.chunk_index) ELSE "")
        \o " (Relevance: " \o Fmt3(doc.similarity_score) \o ")]"

FormattedDoc(i, doc) == SourceInfo(i, doc) \o "\n" \o doc.text \o "\n"

(* the test that ends the loop of create_context_from_documents *)
ExceedsBudget(current_length, formatted_doc, max_context_length) ==
    current_length + Len(formatted_doc) > max_context_length

RECURSIVE ContextLoop(_, _, _, _, _)
(* the for loop of create_context_from_documents: context_parts on exit *)
ContextLoop(documents, i, context_parts, current_length, max_context_length) ==
    IF i > Len(documents) THEN context_parts
    ELSE LET formatted_doc == FormattedDoc(i, documents[i])
         IN  IF ExceedsBudget(current_length, formatted_doc, max_context_length)
             THEN context_parts
             ELSE ContextLoop(documents, i + 1,
                              Append(context_parts, formatted_doc),
                              current_length + Len(formatted_doc),
                              max_context_length)

RECURSIVE ContextLoopSkip(_, _, _, _, _)
ContextLoopSkip(documents, i, context_parts, current_length,
                max_context_length) ==
    IF i > Len(documents) THEN context_parts
    ELSE LET formatted_doc == FormattedDoc(i, documents[i])
         IN  IF ExceedsBudget(current_length, formatted_doc, max_context_length)
             THEN ContextLoopSkip(documents, i + 1, context_parts,
                                  current_length, max_context_length)
             ELSE ContextLoopSkip(documents, i + 1,
                                  Append(context_parts, formatted_doc),
                                  current_length + Len(formatted_doc),
                                  max_context_length)

(* mutant: the loop skips an entry that does not fit (continue, not break) *)
ContextPartsSkip(documents, max_context_length) ==
    IF Len(documents) = 0 THEN <<>>
    ELSE ContextLoopSkip(documents, 1, <<>>, 0, max_context_length)

ContextParts(documents, max_context_length) ==
    IF Len(documents) = 0 THEN <<>>
    ELSE ContextLoop(documents, 1, <<>>, 0, max_context_length)

(* RetrievalSystem.create_context_from_documents *)
create_context_from_documents(documents, max_context_length, fault) ==
    IF fault = "context" THEN Raise("context failed")
    ELSE Ok(Join(ContextParts(documents, max_context_length), "\n"))

(* the generation service: one reply per request, or a failure *)
llm_invoke(query, fault) ==
    IF fault = "generate" THEN Raise("generation failed")
    ELSE Ok("re:" \o query)

(* line 155: has_context = bool(context and len(context.strip()) > 100) *)
HasContextUnstripped(context) ==
    context # "" /\ Len(context) > min_context_length

HasContext(context) ==
    context # "" /\ Len(Strip(context)) > min_context_length

(* the fixed system instruction (lines 158-179), text shortened *)
system_prompt ==
    "You are an expert US Tax Assistant with deep knowledge of tax regulations, IRS publications, and tax law."

(* the context-based final user turn (lines 191-217), instructions shortened *)
ContextMessage(query, context) ==
    "CONTEXT FROM TAX DOCUMENTS:\n" \o context
    \o "\n\nUSER QUESTION: " \o query
    \o "\n\nINSTRUCTIONS:\n- FIRST, evaluate whether the provided context contains useful and relevant information"
    \o "\n\nRESPONSE FORMAT:\n- \"**Source: context + reasoning**\" (if context is useful)\n- \"**Source: reasoning**\" (if context is not useful)"

(* the knowledge-only final user turn (lines 219-230), instructions
   shortened *)
KnowledgeMessage(query) ==
    "USER QUESTION: " \o query
    \o "\n\nINSTRUCTIONS:\n- Provide a DETAILED, STRUCTURED, and COMPREHENSIVE answer using your extensive tax knowledge"
    \o "\n\nRESPONSE FORMAT:\nStart your response with: \"**Source: reasoning**\""

(* mutant: the final user turn is the bare query, put in front of the
   history *)
GenerationRequestQueryFirst(query, context, history) ==
    <<[role |-> "system", content |-> system_prompt]>>
    \o <<[role |-> "user", content |-> query]>>
    \o history

(* lines 181-232: the messages handed to the generation service *)
GenerationRequest(query, context, history) ==
    <<[role |-> "system", content |-> system_prompt]>>
    \o history
    \o <<[role |-> "user",
          content |-> IF HasContext(context)
                      THEN ContextMessage(query, context)
                      ELSE KnowledgeMessage(query)]>>

(* mutant: a failed generation call is sent a second time *)
generate_answer_retry(query, context, history, fault) ==
    LET messages == GenerationRequest(query, context, history)
        response == llm_invoke(query, fault)
    IN  [answer |-> TryExcept(response, GenApology).val,
         requests |-> IF response.exc THEN <<messages, messages>>
                      ELSE <<messages>>]

(* generate_answer with the requests it sent to the generation service *)
generate_answer_run(query, context, history, fault) ==
    LET messages == GenerationRequest(query, context, history)
        response == llm_invoke(query, fault)
    IN  [answer |-> TryExcept(response, GenApology).val,
         requests |-> <<messages>>]

(* RetrievalSystem.generate_answer *)
generate_answer(query, context, history, fault) ==
    Ok(generate_answer_run(query, context, history, fault).answer)

(* RetrievalSystem.process_query *)
process_query(query, history, storeResults, max_context_length, fault) ==
    LET documents == retrieve_documents(storeResults, fault)
        context == IF documents.exc THEN documents
                   ELSE create_context_from_documents(documents.val,
                                                      max_context_length, fault)
        ans == IF context.exc THEN context
               ELSE generate_answer(query, context.val, history, fault)
        body == IF ans.exc THEN ans
                ELSE Ok([answer |-> ans.val,
                         retrieved_documents |-> documents.val,
                         context_length |-> Len(context.val),
                         num_documents |-> Len(documents.val),
                         query |-> query])
    IN  TryExcept(body, [answer |-> QueryApology,
                         retrieved_documents |-> <<>>,
                         context_length |-> 0,
                         num_documents |-> 0,
                         query |-> query,
                         error |-> body.val])

-----------------------------------------------------------------------------
(* Inputs of the model *)

(* the n-th message sent in a run; api_send_message and the chat loop only
   pass non-empty strings *)
Msg(n) == "q" \o ToString(n)

RECURSIVE Repeat(_, _)
Repeat(str, n) == IF n = 0 THEN "" ELSE str \o Repeat(str, n - 1)

(* a chunk text of 7500 characters: two of them do not fit the default
   context budget *)
LongText == Repeat(Repeat("0123456789", 10), 75)

Metadatas == {[source_file |-> "a.pdf", chunk_index |-> 0],
              [source_file |-> "b.pdf", page_number |-> 12, chunk_index |-> 3],
              [chunk_index |-> 1]}
Scores == {299, 300, 301, 1250}     \* thousandths

(* candidate documents of a create_context_from_documents call *)
ContextDocs == [text : {"tax", "deduction"}, metadata : Metadatas,
                similarity_score : {301, 1250}]

(* budgets around the lengths of one, two and three formatted entries *)
Budgets == {0, 45, 53, 54, 55, 60, 61, 108, 109, 113, 114, 115, 120, 121,
            168, 174, 180, default_max_context_length}

(* formatted search results of a search_similar call *)
ShortText == "deduction"

(* a chunk text of 50 characters: its formatted entry has 101 *)
Text50 == Repeat("0123456789", 5)

QueryDocs == [text : {ShortText, Text50, LongText},
              metadata : {[source_file |-> "a.pdf", chunk_index |-> 0]},
              similarity_score : Scores]

SeqsUpTo(S, n) == UNION {[1..k -> S] : k \in 0..n}

(* Chroma.similarity_search_with_score (vector_database.py lines 138-148):
   the score of a result is its distance from the query, lower for a more
   similar chunk, and the results come nearest first *)
IsRanked(results) ==
    \A i \in 1..(Len(results) - 1) :
        results[i].similarity_score <= results[i + 1].similarity_score

(* the ranked result lists of a search_similar call *)
RankedResults == {results \in SeqsUpTo(QueryDocs, MaxDocs) : IsRanked(results)}

(* the search results a send is given in Spec *)
SendResults == {<<>>,
                <<[text |-> "deduction",
                   metadata |-> [source_file |-> "a.pdf", chunk_index |-> 0],
                   similarity_score |-> 301]>>}

-----------------------------------------------------------------------------
(* ChatManager *)

UserTurn(m) == [role |-> "user", content |-> m]
AssistantTurn(a) == [role |-> "assistant", content |-> a]

(* mutant: the slice keeps one turn too many *)
TrimHistoryOffByOne(h) ==
    IF Len(h) > max_history THEN SubSeq(h, Len(h) - max_history, Len(h))
    ELSE h

(* mutant: the slice keeps the oldest turns, h[:max_history] *)
TrimHistoryKeepOldest(h) ==
    IF Len(h) > max_history THEN SubSeq(h, 1, max_history) ELSE h

(* lines 82-83: keep the last max_history turns *)
TrimHistory(h) ==
    IF Len(h) > max_history THEN SubSeq(h, Len(h) - max_history + 1, Len(h))
    ELSE h

(* mutant: conversation_turns counts every message *)
get_chat_stats_all_turns(h) ==
    LET user_messages == SelectSeq(h, LAMBDA msg : msg.role = "user")
        assistant_messages == SelectSeq(h, LAMBDA msg : msg.role = "assistant")
    IN  [total_messages |-> Len(h),
         user_messages |-> Len(user_messages),
         assistant_messages |-> Len(assistant_messages),
         conversation_turns |-> Len(h)]

(* ChatManager.get_chat_stats *)
get_chat_stats(h) ==
    LET user_messages == SelectSeq(h, LAMBDA msg : msg.role = "user")
        assistant_messages == SelectSeq(h, LAMBDA msg : msg.role = "assistant")
    IN  [total_messages |-> Len(h),
         user_messages |-> Len(user_messages),
         assistant_messages |-> Len(assistant_messages),
         conversation_turns |-> Len(user_messages)]

(* ChatManager.get_chat_history *)
get_chat_history(h) == h

(* no ingestion run: empty store, no progress file, no poll *)
IngestOff ==
    /\ ing = [pc |-> "off"]
    /\ store = <<>>
    /\ progress = [exists |-> FALSE, content |-> <<>>, writes |-> <<>>]
    /\ poll = <<>>
    /\ db = [pc |-> "off"]
    /\ fn = [pc |-> "off"]

(* a web server that takes no upload *)
WebOff == web = [pc |-> "off"]

AllIdle == \A c \in Callers : pc[c] = "idle"

Returned(op, ret, pre) == [op |-> op, ret |-> ret, raised |-> FALSE, pre |-> pre]
Raised(op, e, pre) == [op |-> op, ret |-> e, raised |-> TRUE, pre |-> pre]

Init ==
    /\ WebOff
    /\ chat_history = <<>>
    /\ retrieval_system = None
    /\ vector_database = None
    /\ pc = [c \in Callers |-> "idle"]
    /\ message = [c \in Callers |-> None]
    /\ answer = [c \in Callers |-> None]
    /\ histAtCall = [c \in Callers |-> <<>>]
    /\ orchHistory = [c \in Callers |-> <<>>]
    /\ lastOp = Returned("init", None, <<>>)
    /\ exchanges = <<>>
    /\ nSends = 0
    /\ nFaults = 0
    /\ q = [pc |-> "off"]
    /\ ctx = [pc |-> "off"]
    /\ emb = [pc |-> "off"]
    /\ IngestOff

(* send_message is called (line 51); one call in flight at a time *)
SendCall(c) ==
    /\ AllIdle
    /\ nSends < MaxSends
    /\ nSends' = nSends + 1
    /\ message' = [message EXCEPT ![c] = Msg(nSends + 1)]
    /\ histAtCall' = [histAtCall EXCEPT ![c] = chat_history]
    /\ pc' = [pc EXCEPT ![c] = "init"]
    /\ UNCHANGED <<chat_history, retrieval_system, vector_database, answer,
                   orchHistory, lastOp, exchanges, nFaults, q, ctx, emb, ingestVars, callVars>>

(* mutant: initialize_components without its try/except *)
initialize_components_uncaught(vdb, rs, outcome) ==
    CASE outcome = "vdb_fails" ->
             [exc |-> TRUE, val |-> "vector database failed",
              vector_database |-> vdb, retrieval_system |-> rs]
      [] outcome = "rs_fails" ->
             [exc |-> TRUE, val |-> "OpenAI API key is required",
              vector_database |-> "set", retrieval_system |-> rs]
      [] OTHER ->
             [exc |-> FALSE, val |-> TRUE,
              vector_database |-> "set", retrieval_system |-> "set"]

(* ChatManager.initialize_components: VectorDatabase() is assigned before
   RetrievalSystem() is constructed; either constructor may throw, which is
   caught and turned into False *)
initialize_components(vdb, rs, outcome) ==
    LET body ==
            CASE outcome = "vdb_fails" ->
                     [exc |-> TRUE, val |-> "vector database failed",
                      vector_database |-> vdb, retrieval_system |-> rs]
              [] outcome = "rs_fails" ->
                     [exc |-> TRUE, val |-> "OpenAI API key is required",
                      vector_database |-> "set", retrieval_system |-> rs]
              [] OTHER ->
                     [exc |-> FALSE, val |-> TRUE,
                      vector_database |-> "set", retrieval_system |-> "set"]
    IN  IF body.exc THEN [body EXCEPT !.exc = FALSE, !.val = FALSE] ELSE body

(* lines 63-66, outside the try block of send_message *)
SendInit(c) ==
    /\ pc[c] = "init"
    /\ IF retrieval_system # None
       THEN /\ pc' = [pc EXCEPT ![c] = "query"]
            /\ UNCHANGED <<retrieval_system, vector_database, message, lastOp,
                           nFaults, histAtCall>>
       ELSE \E outcome \in {"ok", "vdb_fails", "rs_fails"} :
            LET r == initialize_components(vector_database, retrieval_system,
                                           outcome)
            IN  /\ outcome # "ok" => nFaults < MaxFaults
                /\ nFaults' = IF outcome = "ok" THEN nFaults ELSE nFaults + 1
                /\ vector_database' = r.vector_database
                /\ retrieval_system' = r.retrieval_system
                /\ IF r.exc
                   THEN /\ pc' = [pc EXCEPT ![c] = "idle"]
                        /\ message' = [message EXCEPT ![c] = None]
                        /\ lastOp' = Raised("send", r.val, histAtCall[c])
                        /\ histAtCall' = [histAtCall EXCEPT ![c] = <<>>]
                   ELSE IF ~r.val
                   THEN /\ pc' = [pc EXCEPT ![c] = "idle"]
                        /\ message' = [message EXCEPT ![c] = None]
                        /\ lastOp' = Returned("send_init_error", InitError,
                                              histAtCall[c])
                        /\ histAtCall' = [histAtCall EXCEPT ![c] = <<>>]
                   ELSE /\ pc' = [pc EXCEPT ![c] = "query"]
                        /\ UNCHANGED <<message, lastOp, histAtCall>>
    /\ UNCHANGED <<chat_history, answer, orchHistory, exchanges, nSends, q,
                   ctx, emb, ingestVars, callVars>>

(* mutant: the user turn is appended before the orchestrator is called *)
SendQueryAfterAppend(c) ==
    /\ pc[c] = "query"
    /\ \E fault \in Faults, storeResults \in SendResults :
        LET history == Append(chat_history, UserTurn(message[c]))
            result == process_query(message[c], history, storeResults,
                                    default_max_context_length, fault)
        IN  /\ fault # "none" => nFaults < MaxFaults
            /\ nFaults' = IF fault = "none" THEN nFaults ELSE nFaults + 1
            /\ chat_history' = history
            /\ pc' = [pc EXCEPT ![c] = "append_user"]
            /\ answer' = [answer EXCEPT ![c] = result.val.answer]
            /\ orchHistory' = [orchHistory EXCEPT ![c] = history]
    /\ UNCHANGED <<retrieval_system, vector_database, message, lastOp,
                   histAtCall, exchanges, nSends, q, ctx, emb, ingestVars, callVars>>

(* mutant: a send whose answer is an apology returns it without touching
   the history *)
SendQueryDropFailed(c) ==
    /\ pc[c] = "query"
    /\ \E fault \in Faults, storeResults \in SendResults :
        LET result == process_query(message[c], chat_history, storeResults,
                                    default_max_context_length, fault)
        IN  /\ fault # "none" => nFaults < MaxFaults
            /\ nFaults' = IF fault = "none" THEN nFaults ELSE nFaults + 1
            /\ IF result.val.answer \in {GenApology, QueryApology}
               THEN /\ pc' = [pc EXCEPT ![c] = "idle"]
                    /\ message' = [message EXCEPT ![c] = None]
                    /\ lastOp' = Returned("send", result.val.answer,
                                          histAtCall[c])
                    /\ histAtCall' = [histAtCall EXCEPT ![c] = <<>>]
                    /\ UNCHANGED <<answer, orchHistory>>
               ELSE /\ pc' = [pc EXCEPT ![c] = "append_user"]
                    /\ answer' = [answer EXCEPT ![c] = result.val.answer]
                    /\ orchHistory' = [orchHistory EXCEPT ![c] = chat_history]
                    /\ UNCHANGED <<message, lastOp, histAtCall>>
    /\ UNCHANGED <<chat_history, retrieval_system, vector_database, exchanges,
                   nSends, q, ctx, emb, ingestVars, callVars>>

(* lines 68-74: process_query runs to its end on the session's history;
   line 88-90 if it throws *)
SendQuery(c) ==
    /\ pc[c] = "query"
    /\ \E fault \in Faults, storeResults \in SendResults :
        LET result == process_query(message[c], chat_history, storeResults,
                                    default_max_context_length, fault)
        IN  /\ fault # "none" => nFaults < MaxFaults
            /\ nFaults' = IF fault = "none" THEN nFaults ELSE nFaults + 1
            /\ IF result.exc
               THEN /\ pc' = [pc EXCEPT ![c] = "idle"]
                    /\ message' = [message EXCEPT ![c] = None]
                    /\ lastOp' = Returned("send_except",
                                          SendApology(result.val),
                                          histAtCall[c])
                    /\ histAtCall' = [histAtCall EXCEPT ![c] = <<>>]
                    /\ UNCHANGED <<answer, orchHistory>>
               ELSE /\ pc' = [pc EXCEPT ![c] = "append_user"]
                    /\ answer' = [answer EXCEPT ![c] = result.val.answer]
                    /\ orchHistory' = [orchHistory EXCEPT ![c] = chat_history]
                    /\ UNCHANGED <<message, lastOp, histAtCall>>
    /\ UNCHANGED <<chat_history, retrieval_system, vector_database, exchanges,
                   nSends, q, ctx, emb, ingestVars, callVars>>

(* line 77 *)
SendAppendUser(c) ==
    /\ pc[c] = "append_user"
    /\ chat_history' = Append(chat_history, UserTurn(message[c]))
    /\ pc' = [pc EXCEPT ![c] = "append_assistant"]
    /\ UNCHANGED <<retrieval_system, vector_database, message, answer,
                   histAtCall, orchHistory, lastOp, exchanges, nSends,
                   nFaults, q, ctx, emb, ingestVars, callVars>>

(* line 78 *)
SendAppendAssistant(c) ==
    /\ pc[c] = "append_assistant"
    /\ chat_history' = Append(chat_history, AssistantTurn(answer[c]))
    /\ pc' = [pc EXCEPT ![c] = "trim"]
    /\ UNCHANGED <<retrieval_system, vector_database, message, answer,
                   histAtCall, orchHistory, lastOp, exchanges, nSends,
                   nFaults, q, ctx, emb, ingestVars, callVars>>

(* lines 80-86: trim and return result['answer'] *)
SendTrim(c) ==
    /\ pc[c] = "trim"
    /\ chat_history' = TrimHistory(chat_history)
    /\ lastOp' = Returned("send", answer[c], histAtCall[c])
    /\ exchanges' = Append(exchanges, <<message[c], answer[c]>>)
    /\ pc' = [pc EXCEPT ![c] = "idle"]
    /\ message' = [message EXCEPT ![c] = None]
    /\ answer' = [answer EXCEPT ![c] = None]
    /\ histAtCall' = [histAtCall EXCEPT ![c] = <<>>]
    /\ orchHistory' = [orchHistory EXCEPT ![c] = <<>>]
    /\ UNCHANGED <<retrieval_system, vector_database, nSends, nFaults, q, ctx, emb, ingestVars, callVars>>

(* mutant: reset clears a copy of the history, not the history *)
ResetChatOnCopy(c) ==
    /\ AllIdle
    /\ lastOp' = Returned("reset", TRUE, chat_history)
    /\ exchanges' = <<>>
    /\ UNCHANGED <<chat_history, retrieval_system, vector_database, pc,
                   message, answer, histAtCall, orchHistory, nSends, nFaults,
                   q, ctx, emb, ingestVars, callVars>>

(* ChatManager.reset_chat *)
ResetChat(c) ==
    /\ AllIdle
    /\ chat_history' = <<>>
    /\ lastOp' = Returned("reset", TRUE, chat_history)
    /\ exchanges' = <<>>
    /\ UNCHANGED <<retrieval_system, vector_database, pc, message, answer,
                   histAtCall, orchHistory, nSends, nFaults, q, ctx, emb, ingestVars, callVars>>

(* ChatManager.get_chat_stats called by c *)
GetChatStats(c) ==
    /\ AllIdle
    /\ lastOp' = Returned("stats", get_chat_stats(chat_history), chat_history)
    /\ UNCHANGED <<chat_history, retrieval_system, vector_database, pc, message,
                   answer, histAtCall, orchHistory, exchanges, nSends, nFaults,
                   q, ctx, emb, ingestVars, callVars>>

(* ChatManager.get_chat_history called by c *)
GetChatHistory(c) ==
    /\ AllIdle
    /\ lastOp' = Returned("history", get_chat_history(chat_history),
                          chat_history)
    /\ UNCHANGED <<chat_history, retrieval_system, vector_database, pc, message,
                   answer, histAtCall, orchHistory, exchanges, nSends, nFaults,
                   q, ctx, emb, ingestVars, callVars>>

Next ==
    \E c \in Callers :
        \/ SendCall(c)
        \/ SendInit(c)
        \/ SendQuery(c)
        \/ SendAppendUser(c)
        \/ SendAppendAssistant(c)
        \/ SendTrim(c)
        \/ ResetChat(c)
        \/ GetChatStats(c)
        \/ GetChatHistory(c)

Spec == Init /\ [][Next]_vars

-----------------------------------------------------------------------------
(* SpecContext: create_context_from_documents on any candidates and budget *)

InitContext ==
    /\ WebOff
    /\ chat_history = <<>>
    /\ retrieval_system = None
    /\ vector_database = None
    /\ pc = [c \in Callers |-> "idle"]
    /\ message = [c \in Callers |-> None]
    /\ answer = [c \in Callers |-> None]
    /\ histAtCall = [c \in Callers |-> <<>>]
    /\ orchHistory = [c \in Callers |-> <<>>]
    /\ lastOp = Returned("init", None, <<>>)
    /\ exchanges = <<>>
    /\ nSends = 0
    /\ nFaults = 0
    /\ q = [pc |-> "off"]
    /\ emb = [pc |-> "off"]
    /\ IngestOff
    /\ \E documents \in SeqsUpTo(ContextDocs, MaxDocs),
          max_context_length \in Budgets :
          ctx = [pc |-> "call", documents |-> documents,
                 max_context_length |-> max_context_length,
                 context_parts |-> <<>>, context |-> ""]

(* RetrievalSystem.create_context_from_documents, lines 99-137 *)
CreateContext ==
    /\ ctx.pc = "call"
    /\ ctx' = [ctx EXCEPT
                 !.pc = "done",
                 !.context_parts = ContextParts(ctx.documents,
                                                ctx.max_context_length),
                 !.context = create_context_from_documents(
                                 ctx.documents, ctx.max_context_length,
                                 "none").val]
    /\ UNCHANGED <<sessionVars, q, emb, ingestVars, callVars>>

NextContext == CreateContext

SpecContext == InitContext /\ [][NextContext]_vars

-----------------------------------------------------------------------------
(* SpecQuery: one process_query call, statement by statement *)

QueryHistories == {<<>>, <<UserTurn("q0"), AssistantTurn("re:q0")>>}

InitQuery ==
    /\ WebOff
    /\ chat_history = <<>>
    /\ retrieval_system = "set"
    /\ vector_database = "set"
    /\ pc = [c \in Callers |-> "idle"]
    /\ message = [c \in Callers |-> None]
    /\ answer = [c \in Callers |-> None]
    /\ histAtCall = [c \in Callers |-> <<>>]
    /\ orchHistory = [c \in Callers |-> <<>>]
    /\ lastOp = Returned("init", None, <<>>)
    /\ exchanges = <<>>
    /\ nSends = 0
    /\ nFaults = 0
    /\ ctx = [pc |-> "off"]
    /\ emb = [pc |-> "off"]
    /\ IngestOff
    /\ \E storeResults \in RankedResults, fault \in Faults,
          history \in QueryHistories :
          q = [pc |-> "retrieve", query |-> "q1", chat_history |-> history,
               storeResults |-> storeResults, fault |-> fault,
               documents |-> <<>>, context_parts |-> <<>>, context |-> "",
               answer |-> None, requests |-> <<>>, result |-> None,
               raised |-> FALSE]

(* line 266: documents = self.retrieve_documents(query, k=k) *)
QueryRetrieve ==
    /\ q.pc = "retrieve"
    /\ q' = [q EXCEPT !.pc = "context",
                      !.documents =
                          retrieve_documents(q.storeResults, q.fault).val]
    /\ UNCHANGED <<sessionVars, ctx, emb, ingestVars, callVars>>

(* line 269: context = self.create_context_from_documents(documents);
   lines 285-294 when it throws *)
QueryContext ==
    /\ q.pc = "context"
    /\ LET context == create_context_from_documents(
                          q.documents, default_max_context_length, q.fault)
       IN  IF context.exc
           THEN q' = [q EXCEPT
                        !.pc = "done",
                        !.result = [answer |-> QueryApology,
                                    retrieved_documents |-> <<>>,
                                    context_length |-> 0,
                                    num_documents |-> 0,
                                    query |-> q.query,
                                    error |-> context.val]]
           ELSE q' = [q EXCEPT
                        !.pc = "generate",
                        !.context_parts =
                            ContextParts(q.documents,
                                         default_max_context_length),
                        !.context = context.val]
    /\ UNCHANGED <<sessionVars, ctx, emb, ingestVars, callVars>>

(* line 272: answer = self.generate_answer(query, context, chat_history) *)
QueryGenerate ==
    /\ q.pc = "generate"
    /\ LET run == generate_answer_run(q.query, q.context, q.chat_history,
                                      q.fault)
       IN  q' = [q EXCEPT !.pc = "result",
                          !.answer = run.answer,
                          !.requests = run.requests]
    /\ UNCHANGED <<sessionVars, ctx, emb, ingestVars, callVars>>

(* mutant: context_length is the running total of the loop, which leaves out
   the separators of the join *)
QueryReturnRunningTotal ==
    /\ q.pc = "result"
    /\ q' = [q EXCEPT !.pc = "done",
                      !.result = [answer |-> q.answer,
                                  retrieved_documents |-> q.documents,
                                  context_length |-> SumLen(q.context_parts),
                                  num_documents |-> Len(q.documents),
                                  query |-> q.query]]
    /\ UNCHANGED <<sessionVars, ctx, emb, ingestVars, callVars>>

(* lines 274-283: the result dictionary *)
QueryReturn ==
    /\ q.pc = "result"
    /\ q' = [q EXCEPT !.pc = "done",
                      !.result = [answer |-> q.answer,
                                  retrieved_documents |-> q.documents,
                                  context_length |-> Len(q.context),
                                  num_documents |-> Len(q.documents),
                                  query |-> q.query]]
    /\ UNCHANGED <<sessionVars, ctx, emb, ingestVars, callVars>>

NextQuery ==
    \/ QueryRetrieve
    \/ QueryContext
    \/ QueryGenerate
    \/ QueryReturn

SpecQuery == InitQuery /\ [][NextQuery]_vars

(* the statement-by-statement call returns what process_query returns *)
QueryStepsAgree ==
    q.pc = "done" =>
        q.result = process_query(q.query, q.chat_history, q.storeResults,
                                 default_max_context_length, q.fault).val

-----------------------------------------------------------------------------
(* Properties of the session (Spec) *)

max_pairs == max_history \div 2

IsUserThenAssistant(h, i) ==
    /\ h[i].role = "user"
    /\ h[i + 1].role = "assistant"

(* C1: whenever no send is in flight the history holds at most 20 turns and,
   if it is non-empty, its last two turns are a user turn followed by an
   assistant turn. *)
C1_HistoryCapAndPair ==
    AllIdle =>
        /\ Len(chat_history) <= 2 * max_pairs
        /\ Len(chat_history) > 0 =>
               /\ Len(chat_history) >= 2
               /\ IsUserThenAssistant(chat_history, Len(chat_history) - 1)

(* a full history after a send whose trim dropped a pair *)
C1_Witness ==
    /\ AllIdle
    /\ lastOp.op = "send"
    /\ Len(lastOp.pre) = max_history
    /\ Len(chat_history) = max_history

(* C2: after completed calls the history has even length and its roles
   alternate user, assistant, ... from a user turn, so that get_chat_stats
   reports user_messages = assistant_messages = conversation_turns and
   total_messages = 2 * conversation_turns. *)
C2_AlternationAndStats ==
    AllIdle =>
        LET stats == get_chat_stats(chat_history)
        IN  /\ Len(chat_history) % 2 = 0
            /\ \A i \in 1..Len(chat_history) :
                   chat_history[i].role =
                       IF i % 2 = 1 THEN "user" ELSE "assistant"
            /\ stats.user_messages = stats.assistant_messages
            /\ stats.assistant_messages = stats.conversation_turns
            /\ stats.total_messages = 2 * stats.conversation_turns

(* get_chat_stats has just been called on a trimmed, full history *)
C2_Witness ==
    /\ lastOp.op = "stats"
    /\ lastOp.ret.conversation_turns = max_pairs
    /\ Len(exchanges) > max_pairs

RECURSIVE Flatten(_)
(* the turns of a sequence of <<message, answer>> exchanges *)
Flatten(xs) ==
    IF Len(xs) = 0 THEN <<>>
    ELSE <<UserTurn(xs[1][1]), AssistantTurn(xs[1][2])>> \o Flatten(Tail(xs))

LastExchanges(xs, n) == SubSeq(xs, Len(xs) - n + 1, Len(xs))

(* C3: after n sends that returned an answer since creation or the last
   reset, the history is exactly the last min(n, 10) exchanges, in
   chronological order and unaltered. *)
C3_HistoryIsLastExchanges ==
    AllIdle =>
        chat_history =
            Flatten(LastExchanges(exchanges, Min(Len(exchanges), max_pairs)))

(* two pairs have been trimmed away *)
C3_Witness ==
    /\ AllIdle
    /\ Len(exchanges) = max_pairs + 2
    /\ chat_history[1].content = exchanges[3][1]

(* C4: reset_chat returns True and leaves the history empty in any state it
   is called in: right after it get_chat_stats reports 0 for every count and
   get_chat_history returns the empty list. *)
C4_ResetEmpties ==
    (AllIdle /\ lastOp.op = "reset") =>
        /\ lastOp.ret = TRUE
        /\ ~lastOp.raised
        /\ chat_history = <<>>
        /\ get_chat_history(chat_history) = <<>>
        /\ get_chat_stats(chat_history) =
               [total_messages |-> 0, user_messages |-> 0,
                assistant_messages |-> 0, conversation_turns |-> 0]

(* reset was called on a session holding the maximum number of turns *)
C4_Witness ==
    /\ AllIdle
    /\ lastOp.op = "reset"
    /\ Len(lastOp.pre) = max_history

(* C5: the Orchestrator is invoked with the history as it stood before the
   call, which does not contain the message; the user turn and then the
   assistant turn are appended only after it has returned, then the history
   is trimmed; send returns the content of the assistant turn it appended. *)
C5_SendOrder ==
    /\ \A c \in Callers :
        /\ pc[c] \in {"init", "query", "append_user"} =>
               chat_history = histAtCall[c]
        /\ pc[c] \in {"append_user", "append_assistant", "trim"} =>
               /\ orchHistory[c] = histAtCall[c]
               /\ \A i \in 1..Len(orchHistory[c]) :
                      orchHistory[c][i].content # message[c]
        /\ pc[c] = "append_assistant" =>
               chat_history = Append(histAtCall[c], UserTurn(message[c]))
        /\ pc[c] = "trim" =>
               chat_history = histAtCall[c] \o
                   <<UserTurn(message[c]), AssistantTurn(answer[c])>>
    /\ (AllIdle /\ lastOp.op = "send") =>
           /\ Len(chat_history) >= 2
           /\ chat_history[Len(chat_history) - 1] =
                  UserTurn(exchanges[Len(exchanges)][1])
           /\ chat_history[Len(chat_history)] = AssistantTurn(lastOp.ret)

(* a send on a non-empty history has returned its answer *)
C5_Witness ==
    /\ AllIdle
    /\ lastOp.op = "send"
    /\ Len(lastOp.pre) > 0
    /\ lastOp.ret = "re:" \o exchanges[Len(exchanges)][1]

(* C6: send_message never raises to its caller: whichever step fails, it
   returns a string. *)
C6_SendNeverRaises ==
    lastOp.op \in {"send", "send_init_error", "send_except"} =>
        /\ ~lastOp.raised
        /\ lastOp.ret \in STRING

(* RetrievalSystem() failed after VectorDatabase() had been built, and the
   send came back with the configuration message *)
C6_Witness ==
    /\ AllIdle
    /\ lastOp.op = "send_init_error"
    /\ lastOp.ret = InitError
    /\ vector_database = "set"
    /\ retrieval_system = None

-----------------------------------------------------------------------------
(* Properties of context assembly (SpecContext) *)

(* C7: the context string returned by create_context_from_documents has
   length at most max_context_length. *)
C7_ContextWithinBudget ==
    ctx.pc = "done" => Len(ctx.context) <= ctx.max_context_length

FormattedPrefix(documents, n) ==
    [i \in 1..n |-> FormattedDoc(i, documents[i])]

(* the number of leading results whose formatted entries fit the budget
   together, counted by the running character total *)
FitCount(documents, max_context_length) ==
    CHOOSE n \in 0..Len(documents) :
        /\ \A j \in 1..n :
               SumLen(FormattedPrefix(documents, j)) <= max_context_length
        /\ n < Len(documents) =>
               SumLen(FormattedPrefix(documents, n + 1)) > max_context_length

(* C8: the context is made of the whole formatted entries of a prefix of the
   results, in rank order; assembly stops at the first entry that would push
   the running total over the budget and takes no later result, even one
   that would fit. *)
C8_WholePrefix ==
    ctx.pc = "done" =>
        LET n == FitCount(ctx.documents, ctx.max_context_length)
        IN  /\ ctx.context_parts = FormattedPrefix(ctx.documents, n)
            /\ ctx.context = Join(FormattedPrefix(ctx.documents, n), "\n")

(* assembly stopped with an entry in the context, and a result after the
   stopping point would have fitted *)
C8_Witness ==
    /\ ctx.pc = "done"
    /\ Len(ctx.context_parts) >= 1
    /\ \E j \in (Len(ctx.context_parts) + 2)..Len(ctx.documents) :
           SumLen(ctx.context_parts) + Len(FormattedDoc(j, ctx.documents[j]))
               <= ctx.max_context_length

-----------------------------------------------------------------------------
(* Properties of process_query (SpecQuery) *)

(* C9: retrieve_documents returns, in the store's order, exactly the search
   results whose score is not below the 0.3 threshold. *)
C9_KeepsNotBelowThreshold ==
    q.pc \in {"context", "generate", "result", "done"} =>
        q.documents =
            SelectSeq(search_similar(q.storeResults, q.fault).val,
                      LAMBDA doc : ~(doc.similarity_score < threshold))

(* C10 as claimed: the documents listed in the result, and their count, are
   precisely the ones whose formatted text is in the context sent to the
   generation service, and context_length is the length of that context. *)
C10_ResultListsUsedChunks ==
    (q.pc = "done" /\ "error" \notin DOMAIN q.result) =>
        /\ FormattedPrefix(q.result.retrieved_documents,
                           Len(q.result.retrieved_documents)) = q.context_parts
        /\ q.result.num_documents = Len(q.context_parts)
        /\ q.result.context_length = Len(q.context)

(* C10 as amended: the result lists every retrieved (filtered) document and
   their count; the context sent to the generation service holds the
   formatted text of a prefix of them, of all of them when their entries fit
   the budget together; context_length is the length of that context. *)
C10_ResultListsRetrieved ==
    (q.pc = "done" /\ "error" \notin DOMAIN q.result) =>
        LET listed == q.result.retrieved_documents
        IN  /\ listed = q.documents
            /\ q.result.num_documents = Len(listed)
            /\ Len(q.context_parts) <= Len(listed)
            /\ q.context_parts = FormattedPrefix(listed, Len(q.context_parts))
            /\ SumLen(FormattedPrefix(listed, Len(listed)))
                   <= default_max_context_length
                   => Len(q.context_parts) = Len(listed)
            /\ q.context = Join(q.context_parts, "\n")
            /\ q.result.context_length = Len(q.context)

(* a result that lists a document the budget kept out of the context *)
C10_Witness ==
    /\ q.pc = "done"
    /\ "error" \notin DOMAIN q.result
    /\ q.result.num_documents > Len(q.context_parts)
    /\ Len(q.context_parts) >= 1

-----------------------------------------------------------------------------
(* a session that takes no step *)
SessionOff ==
    /\ chat_history = <<>>
    /\ retrieval_system = None
    /\ vector_database = None
    /\ pc = [c \in Callers |-> "idle"]
    /\ message = [c \in Callers |-> None]
    /\ answer = [c \in Callers |-> None]
    /\ histAtCall = [c \in Callers |-> <<>>]
    /\ orchHistory = [c \in Callers |-> <<>>]
    /\ lastOp = Returned("init", None, <<>>)
    /\ exchanges = <<>>
    /\ nSends = 0
    /\ nFaults = 0
    /\ q = [pc |-> "off"]
    /\ ctx = [pc |-> "off"]

EmbedTexts == {"t1", "t2"}

(* the embedding service's vector for one text: never empty *)
ServiceVector(text) == <<"vector of", text>>

(* OpenAIEmbeddings.embed_documents: one vector per text, or an exception *)
embed_documents(batch, fails) ==
    IF fails THEN Raise("embedding service error")
    ELSE Ok([k \in 1..Len(batch) |-> ServiceVector(batch[k])])

(* texts[i:i + batch_size], i counted from 0 *)
Batch(texts, i, batch_size) ==
    SubSeq(texts, i + 1, Min(i + batch_size, Len(texts)))

-----------------------------------------------------------------------------
(* Ingestion: text splitter, embeddings with metadata, vector store *)

(* os.path.basename *)
RECURSIVE Basename(_)
Basename(path) ==
    IF \E k \in 1..Len(path) : SubSeq(path, k, k) = "/"
    THEN Basename(SubSeq(path, 2, Len(path)))
    ELSE path

(* the files a run can be given; os.path.exists holds of those on disk *)
FilePaths == {"uploads/a.pdf", "uploads/b.pdf", "uploads/missing.pdf"}

OnDisk == {"uploads/a.pdf", "uploads/b.pdf"}

(* the chunk texts RecursiveCharacterTextSplitter makes of a file's text *)
ChunkTexts(path) ==
    IF path = "uploads/a.pdf" THEN <<"a-part-0", "a-part-1">>
    ELSE IF path = "uploads/b.pdf" THEN <<"b-part-0">>
    ELSE IF path = "input/a.pdf" THEN <<"i-part-0">>
    ELSE <<>>

(* PDFExtractor.extract_text_from_pdf: text and metadata, or an exception *)
extract_text_from_pdf(pdf_path, outcome) ==
    IF outcome = "raise" THEN Raise("All extraction methods failed")
    ELSE Ok([text |-> Join(ChunkTexts(pdf_path), " "),
             metadata |-> [source_file |-> Basename(pdf_path),
                           file_path |-> pdf_path]])

(* text_splitter.py lines 72-77: the id of chunk i of a source file *)
ChunkId(source_file, i) == source_file \o "_chunk_" \o ToString(i)

(* mutant: the record's chunk_size holds len(chunks), not len(chunk) *)
split_text_chunk_count(chunk_texts, metadata, outcome) ==
    IF outcome = "raise" THEN Raise("split failed")
    ELSE Ok([k \in 1..Len(chunk_texts) |->
               [text |-> chunk_texts[k],
                chunk_id |-> ChunkId(metadata.source_file, k - 1),
                chunk_index |-> k - 1,
                source_file |-> metadata.source_file,
                file_path |-> metadata.file_path,
                total_chunks |-> Len(chunk_texts),
                chunk_size |-> Len(chunk_texts)]])

(* TextSplitter.split_text: one record per chunk, i counted from 0 *)
split_text(chunk_texts, metadata, outcome) ==
    IF outcome = "raise" THEN Raise("split failed")
    ELSE Ok([k \in 1..Len(chunk_texts) |->
               [text |-> chunk_texts[k],
                chunk_id |-> ChunkId(metadata.source_file, k - 1),
                chunk_index |-> k - 1,
                source_file |-> metadata.source_file,
                file_path |-> metadata.file_path,
                total_chunks |-> Len(chunk_texts),
                chunk_size |-> Len(chunk_texts[k])]])

upload_batch_size == 100  \* upload_documents.py:180

(* EmbeddingsGenerator.generate_embeddings as a function of the batches on
   which the service fails (failed holds their loop indices) *)
RECURSIVE generate_embeddings(_, _, _, _)
generate_embeddings(texts, batch_size, i, failed) ==
    IF i >= Len(texts) THEN <<>>
    ELSE LET batch == Batch(texts, i, batch_size)
             r == embed_documents(batch, i \in failed)
         IN  (IF r.exc THEN [k \in 1..Len(batch) |-> <<>>] ELSE r.val)
             \o generate_embeddings(texts, batch_size, i + batch_size, failed)

(* EmbeddingsGenerator.generate_embeddings_with_metadata *)
generate_embeddings_with_metadata(chunks, batch_size, outcome) ==
    IF outcome = "raise" THEN Raise("embedding failed")
    ELSE LET texts == [k \in 1..Len(chunks) |-> chunks[k].text]
             embeddings ==
                 generate_embeddings(texts, batch_size, 0,
                                     IF outcome = "service_fails"
                                     THEN {0} ELSE {})
         IN  Ok([k \in 1..Len(chunks) |->
                   [key \in DOMAIN chunks[k] \cup {"embedding"} |->
                      IF key = "embedding"
                      THEN (IF k <= Len(embeddings) THEN embeddings[k]
                            ELSE <<>>)
                      ELSE chunks[k][key]]])

(* vector_database.py lines 92-100: everything but text and embedding *)
ChunkMetadata(chunk) ==
    [key \in DOMAIN chunk \ {"text", "embedding"} |-> chunk[key]]

(* the chunks add_chunks keeps: those whose text is not blank *)
KeptChunks(chunks) == SelectSeq(chunks, LAMBDA c : Strip(c.text) # "")

(* mutant: the store files every text under a fresh id of its own *)
add_texts_fresh_ids(st, kept) ==
    [id \in DOMAIN st
           \cup {kept[k].chunk_id \o "#" \o ToString(Cardinality(DOMAIN st) + k)
                 : k \in 1..Len(kept)} |->
       IF id \in DOMAIN st THEN st[id]
       ELSE LET k == CHOOSE j \in 1..Len(kept) :
                       id = kept[j].chunk_id \o "#"
                            \o ToString(Cardinality(DOMAIN st) + j)
            IN  [text |-> kept[k].text, metadata |-> ChunkMetadata(kept[k])]]

(* Chroma.add_texts(texts, metadatas, ids), lines 106-110: each text is
   filed under its id, replacing the record that id held *)
add_texts(st, kept) ==
    [id \in DOMAIN st \cup {kept[k].chunk_id : k \in 1..Len(kept)} |->
       IF \E k \in 1..Len(kept) : kept[k].chunk_id = id
       THEN LET k == CHOOSE j \in 1..Len(kept) :
                       /\ kept[j].chunk_id = id
                       /\ \A l \in (j + 1)..Len(kept) : kept[l].chunk_id # id
            IN  [text |-> kept[k].text, metadata |-> ChunkMetadata(kept[k])]
       ELSE st[id]]

(* VectorDatabase.add_chunks: the store afterwards and the value returned.
   outcome "add_raises": add_texts raised; "persist_raises": persist raised
   after the texts were added. *)
add_chunks(st, chunks, outcome) ==
    IF chunks = <<>> THEN [store |-> st, ret |-> FALSE]
    ELSE IF outcome = "add_raises" THEN [store |-> st, ret |-> FALSE]
    ELSE [store |-> add_texts(st, KeptChunks(chunks)),
          ret |-> outcome # "persist_raises"]

-----------------------------------------------------------------------------
(* SpecIngest: one process_uploaded_files run with a progress file, and
   the status polls of its upload session *)

(* int() of the float expressions of lines 122, 142, 166, 186 and 207:
   int((file_index / total_files) * 100 + (add / total_files)).  The
   floating-point value falls just below the exact quotient for the
   arguments listed (total_files up to 5). *)
FloatShort == {<<3, 1, 20>>, <<3, 2, 10>>}

(* mutant: the quotient is cut to an integer before it is scaled *)
StagePercentageCutFirst(file_index, total_files, add) ==
    (file_index \div total_files) * 100 + add \div total_files

StagePercentage(file_index, total_files, add) ==
    LET exact == (100 * file_index + add) \div total_files
    IN  IF <<total_files, file_index, add>> \in FloatShort
        THEN exact - 1 ELSE exact

ProgressRecord(status, pct, msg, file, stage, total, processed) ==
    [status |-> status, percentage |-> pct, message |-> msg,
     currentFile |-> file, currentStage |-> stage,
     totalFiles |-> total, processedFiles |-> processed]

(* lines 62-70 *)
StartingRecord(total_files) ==
    ProgressRecord("starting", 0,
                   "Starting upload of " \o ToString(total_files) \o " files",
                   "", "initializing", total_files, 0)

(* lines 123-131, 143-151, 167-175, 187-195 *)
StageRecord(stage, file_index, total_files, current_file) ==
    ProgressRecord(
        "processing",
        StagePercentage(file_index, total_files,
                        CASE stage = "extracting" -> 0
                          [] stage = "chunking" -> 10
                          [] stage = "embedding" -> 20
                          [] stage = "storing" -> 30),
        CASE stage = "extracting" ->
                 "Processing file " \o ToString(file_index + 1) \o " of "
                 \o ToString(total_files) \o ": " \o current_file
          [] stage = "chunking" -> "Chunking text from " \o current_file
          [] stage = "embedding" ->
                 "Generating embeddings for " \o current_file
          [] stage = "storing" ->
                 "Storing " \o current_file \o " in database",
        current_file, stage, total_files, file_index)

(* lines 208-217 *)
CompletedFileRecord(file_index, total_files, current_file) ==
    ProgressRecord("processing",
                   StagePercentage(file_index + 1, total_files, 0),
                   current_file \o " processed successfully",
                   current_file, "completed_file", total_files,
                   file_index + 1)

(* lines 230-238 *)
CompletedRecord(total_files) ==
    ProgressRecord("completed", 100,
                   "All " \o ToString(total_files)
                   \o " files uploaded successfully!",
                   "", "completed", total_files, total_files)

(* web_server.py lines 359-369: the record a poll reports while the
   progress file does not exist *)
InitialRecord(total_files) ==
    ProgressRecord("starting", 0, "Starting upload...", "", "initializing",
                   total_files, 0)

(* lines 76-82: the paths that exist, in input order *)
(* what the store holds after a run that ingested one file in full *)
StoredRun(path) ==
    LET doc == extract_text_from_pdf(path, "ok").val
        chunks == split_text(ChunkTexts(path), doc.metadata, "ok").val
        enhanced == generate_embeddings_with_metadata(chunks,
                                                      upload_batch_size,
                                                      "ok").val
    IN  add_chunks(<<>>, enhanced, "ok").store

(* the collection when the run starts: empty, or left by an earlier run of
   the command-line script (upload_documents.py lines 264-301), which reads
   its files from the input directory *)
EarlierStores == {<<>>, StoredRun("input/a.pdf")}

ExistingFiles(file_paths) == SelectSeq(file_paths, LAMBDA f : f \in OnDisk)

InitIngest ==
    /\ WebOff
    /\ SessionOff
    /\ emb = [pc |-> "off"]
    /\ store \in EarlierStores
    /\ progress = [exists |-> FALSE, content |-> <<>>, writes |-> <<>>]
    /\ poll = <<>>
    /\ db = [pc |-> "off"]
    /\ fn = [pc |-> "off"]
    /\ \E file_paths \in SeqsUpTo(FilePaths, MaxFiles), api_key \in BOOLEAN :
          ing = [pc |-> "call", file_paths |-> file_paths,
                 api_key |-> api_key, store0 |-> store,
                 total_files |-> Len(file_paths), existing_files |-> <<>>,
                 file_index |-> 0, extraction_result |-> None,
                 chunks |-> <<>>, enhanced_chunks |-> <<>>,
                 total_processed_chunks |-> 0, pending |-> <<>>,
                 ops |-> <<>>, adds |-> <<>>, ret |-> None]

(* write_progress opens the file with open(progress_file, 'w'), which
   empties it (line 40): each action that writes a record leaves the file
   empty and the record pending. *)

(* write_progress, second half (lines 40-41): the record is in the file *)
WriteProgressDump ==
    /\ ing.pc \notin {"off", "done"}
    /\ ing.pending # <<>>
    /\ progress' = [progress EXCEPT
                      !.content = <<ing.pending[1].rec>>,
                      !.writes = Append(@, ing.pending[1])]
    /\ ing' = [ing EXCEPT !.pending = <<>>]
    /\ poll' = <<>>
    /\ UNCHANGED <<sessionVars, callVars, q, ctx, emb, store>>

(* open(progress_file, 'w'): the file exists and is empty *)
Opened == [progress EXCEPT !.exists = TRUE, !.content = <<>>]

Running(at) == ing.pc = at /\ ing.pending = <<>>

(* mutant: after a file the loop takes up the same file again *)
NextFileAgain(r) ==
    [r EXCEPT !.pc = "file",
              !.extraction_result = None, !.chunks = <<>>,
              !.enhanced_chunks = <<>>]

(* the loop moves to the next file (continue, or the end of the body) *)
NextFile(r) ==
    [r EXCEPT !.pc = "file", !.file_index = @ + 1,
              !.extraction_result = None, !.chunks = <<>>,
              !.enhanced_chunks = <<>>]

Op(op, outcome) == [op |-> op, file_index |-> ing.file_index,
                    outcome |-> outcome]

(* lines 61-70: the run starts and opens the progress file for the
   'starting' record *)
IngStart ==
    /\ Running("call")
    /\ ing' = [ing EXCEPT !.pc = "validate",
                          !.pending = <<[rec |-> StartingRecord(ing.total_files),
                                       file_index |-> -1]>>]
    /\ progress' = Opened
    /\ poll' = <<>>
    /\ UNCHANGED <<sessionVars, callVars, q, ctx, emb, store>>

(* lines 72-90: keep the paths that exist; none exists, return False *)
IngValidate ==
    /\ Running("validate")
    /\ LET existing_files == ExistingFiles(ing.file_paths)
       IN  ing' = IF existing_files = <<>>
                  THEN [ing EXCEPT !.pc = "done", !.ret = FALSE]
                  ELSE [ing EXCEPT !.pc = "init",
                                   !.existing_files = existing_files]
    /\ poll' = <<>>
    /\ UNCHANGED <<sessionVars, callVars, q, ctx, emb, store, progress>>

(* EmbeddingsGenerator.__init__ (embeddings_generator.py lines 36-39):
   without OPENAI_API_KEY the constructor raises ValueError *)
InitOutcome(api_key, outcome) ==
    IF outcome = "ok" /\ ~api_key THEN "exception" ELSE outcome

(* mutant: a failed initialisation is logged and the run goes on *)
IngInitComponentsGoOn(outcome) ==
    /\ Running("init")
    /\ ing' = [ing EXCEPT !.pc = "file", !.file_index = 0,
                          !.total_processed_chunks = 0]
    /\ poll' = <<>>
    /\ UNCHANGED <<sessionVars, callVars, q, ctx, emb, store, progress>>

(* lines 92-115 and 251-258: imports and component construction; an
   ImportError or any other exception returns False *)
IngInitComponents(outcome) ==
    /\ Running("init")
    /\ ing' = IF InitOutcome(ing.api_key, outcome) = "ok"
              THEN [ing EXCEPT !.pc = "file", !.file_index = 0,
                               !.total_processed_chunks = 0]
              ELSE [ing EXCEPT !.pc = "done", !.ret = FALSE]
    /\ poll' = <<>>
    /\ UNCHANGED <<sessionVars, callVars, q, ctx, emb, store, progress>>

(* lines 117-131: the next file's 'extracting' record *)
IngFileBegin ==
    /\ Running("file")
    /\ ing.file_index < Len(ing.existing_files)
    /\ LET pdf_path == ing.existing_files[ing.file_index + 1]
           current_file == Basename(pdf_path)
       IN  ing' = [ing EXCEPT
                     !.pc = "extract",
                     !.pending = <<[rec |-> StageRecord("extracting",
                                              ing.file_index,
                                              ing.total_files, current_file),
                                  file_index |-> ing.file_index]>>]
    /\ progress' = Opened
    /\ poll' = <<>>
    /\ UNCHANGED <<sessionVars, callVars, q, ctx, emb, store>>

CurrentPath == ing.existing_files[ing.file_index + 1]

(* mutant: the chunking and embedding records are written in each other's
   place *)
PendingOutOfOrder(stage) ==
    <<[rec |-> StageRecord(CASE stage = "chunking" -> "embedding"
                             [] stage = "embedding" -> "chunking"
                             [] OTHER -> stage,
                           ing.file_index, ing.total_files,
                           Basename(CurrentPath)),
       file_index |-> ing.file_index]>>

(* the record the run is about to write for a stage of the current file *)
Pending(stage) ==
    <<[rec |-> StageRecord(stage, ing.file_index, ing.total_files,
                           Basename(CurrentPath)),
       file_index |-> ing.file_index]>>

(* lines 133-151: extract the text, then the 'chunking' record; an
   exception skips the file (lines 219-221) *)
IngExtract(outcome) ==
    /\ Running("extract")
    /\ LET r == extract_text_from_pdf(CurrentPath, outcome)
           logged == [ing EXCEPT !.ops = Append(@, Op("extract", outcome))]
       IN  IF r.exc
           THEN /\ ing' = NextFile(logged)
                /\ UNCHANGED progress
           ELSE /\ ing' = [logged EXCEPT !.pc = "split",
                                         !.extraction_result = r.val,
                                         !.pending = Pending("chunking")]
                /\ progress' = Opened
    /\ poll' = <<>>
    /\ UNCHANGED <<sessionVars, callVars, q, ctx, emb, store>>

(* lines 153-175: split into chunks, then the 'embedding' record; no chunk
   or an exception skips the file *)
IngSplit(outcome) ==
    /\ Running("split")
    /\ LET r == split_text(ChunkTexts(ing.extraction_result.metadata.file_path),
                           ing.extraction_result.metadata, outcome)
           logged == [ing EXCEPT !.ops = Append(@, Op("split", outcome))]
       IN  IF r.exc \/ r.val = <<>>
           THEN /\ ing' = NextFile(logged)
                /\ UNCHANGED progress
           ELSE /\ ing' = [logged EXCEPT !.pc = "embed", !.chunks = r.val,
                                         !.pending = Pending("embedding")]
                /\ progress' = Opened
    /\ poll' = <<>>
    /\ UNCHANGED <<sessionVars, callVars, q, ctx, emb, store>>

(* lines 177-195: embed the chunks, then the 'storing' record *)
IngEmbed(outcome) ==
    /\ Running("embed")
    /\ LET r == generate_embeddings_with_metadata(ing.chunks,
                                                  upload_batch_size, outcome)
           logged == [ing EXCEPT !.ops = Append(@, Op("embed", outcome))]
       IN  IF r.exc
           THEN /\ ing' = NextFile(logged)
                /\ UNCHANGED progress
           ELSE /\ ing' = [logged EXCEPT !.pc = "store",
                                         !.enhanced_chunks = r.val,
                                         !.pending = Pending("storing")]
                /\ progress' = Opened
    /\ poll' = <<>>
    /\ UNCHANGED <<sessionVars, callVars, q, ctx, emb, store>>

(* mutant: a file the store refused ends the batch *)
IngStoreAbortBatch(outcome) ==
    /\ Running("store")
    /\ LET r == add_chunks(store, ing.enhanced_chunks, outcome)
           logged == [ing EXCEPT
                        !.ops = Append(@, Op("store", outcome)),
                        !.adds = Append(@, [file_index |-> ing.file_index,
                                            path |-> CurrentPath,
                                            pre |-> store, post |-> r.store,
                                            added |-> r.store # store
                                                      \/ outcome # "add_raises",
                                            success |-> r.ret])]
       IN  /\ store' = r.store
           /\ IF ~r.ret
              THEN /\ ing' = [NextFile(logged) EXCEPT
                                !.file_index = Len(ing.existing_files)]
                   /\ UNCHANGED progress
              ELSE /\ ing' = [NextFile(logged) EXCEPT
                                !.total_processed_chunks =
                                    @ + Len(ing.enhanced_chunks),
                                !.pending =
                                    <<[rec |-> CompletedFileRecord(
                                                   ing.file_index,
                                                   ing.total_files,
                                                   Basename(CurrentPath)),
                                       file_index |-> ing.file_index]>>]
                   /\ progress' = Opened
    /\ poll' = <<>>
    /\ UNCHANGED <<sessionVars, callVars, q, ctx, emb>>

(* lines 197-217: add the chunks to the store; False skips the file,
   otherwise the chunks are counted and the 'completed_file' record
   written, and the loop goes on to the next file *)
IngStore(outcome) ==
    /\ Running("store")
    /\ LET r == add_chunks(store, ing.enhanced_chunks, outcome)
           logged == [ing EXCEPT
                        !.ops = Append(@, Op("store", outcome)),
                        !.adds = Append(@, [file_index |-> ing.file_index,
                                            path |-> CurrentPath,
                                            pre |-> store, post |-> r.store,
                                            added |-> r.store # store
                                                      \/ outcome # "add_raises",
                                            success |-> r.ret])]
       IN  /\ store' = r.store
           /\ IF ~r.ret
              THEN /\ ing' = NextFile(logged)
                   /\ UNCHANGED progress
              ELSE /\ ing' = [NextFile(logged) EXCEPT
                                !.total_processed_chunks =
                                    @ + Len(ing.enhanced_chunks),
                                !.pending =
                                    <<[rec |-> CompletedFileRecord(
                                                   ing.file_index,
                                                   ing.total_files,
                                                   Basename(CurrentPath)),
                                       file_index |-> ing.file_index]>>]
                   /\ progress' = Opened
    /\ poll' = <<>>
    /\ UNCHANGED <<sessionVars, callVars, q, ctx, emb>>

(* mutant: the run reports success whatever was stored *)
IngFinishAlwaysTrue ==
    /\ Running("file")
    /\ ing.file_index >= Len(ing.existing_files)
    /\ ing' = [ing EXCEPT !.pc = "final",
                          !.pending = <<[rec |-> CompletedRecord(ing.total_files),
                                       file_index |-> -1]>>]
    /\ progress' = Opened
    /\ poll' = <<>>
    /\ UNCHANGED <<sessionVars, callVars, q, ctx, emb, store>>

(* lines 223-238: after the last file; nothing stored, return False,
   otherwise the 'completed' record *)
IngFinish ==
    /\ Running("file")
    /\ ing.file_index >= Len(ing.existing_files)
    /\ IF ing.total_processed_chunks = 0
       THEN /\ ing' = [ing EXCEPT !.pc = "done", !.ret = FALSE]
            /\ UNCHANGED progress
       ELSE /\ ing' = [ing EXCEPT
                         !.pc = "final",
                         !.pending = <<[rec |-> CompletedRecord(ing.total_files),
                                      file_index |-> -1]>>]
            /\ progress' = Opened
    /\ poll' = <<>>
    /\ UNCHANGED <<sessionVars, callVars, q, ctx, emb, store>>

(* lines 240-249: the statistics are logged and the run returns True *)
IngReturnTrue ==
    /\ Running("final")
    /\ ing' = [ing EXCEPT !.pc = "done", !.ret = TRUE]
    /\ poll' = <<>>
    /\ UNCHANGED <<sessionVars, callVars, q, ctx, emb, store, progress>>

(* api_upload_progress (web_server.py lines 325-377) for the current
   session: the response of the poll answered by this step.  A file that
   holds no complete record makes json.load raise. *)
PollResponse ==
    IF ~progress.exists
    THEN [status |-> 200, success |-> TRUE,
          data |-> InitialRecord(ing.total_files)]
    ELSE IF progress.content = <<>>
    THEN [status |-> 500, success |-> FALSE,
          error |-> "Failed to read progress"]
    ELSE [status |-> 200, success |-> TRUE, data |-> progress.content[1]]

Poll ==
    /\ ing.pc # "off"
    /\ poll' = <<PollResponse>>
    /\ UNCHANGED <<sessionVars, callVars, q, ctx, emb, ing, store, progress>>

ExtractOutcomes == {"ok", "raise"}
SplitOutcomes == {"ok", "raise"}
EmbedOutcomes == {"ok", "service_fails", "raise"}
StoreOutcomes == {"ok", "add_raises", "persist_raises"}
InitOutcomes == {"ok", "import_error", "exception"}

NextIngest ==
    \/ IngStart
    \/ WriteProgressDump
    \/ IngValidate
    \/ \E outcome \in InitOutcomes : IngInitComponents(outcome)
    \/ IngFileBegin
    \/ \E outcome \in ExtractOutcomes : IngExtract(outcome)
    \/ \E outcome \in SplitOutcomes : IngSplit(outcome)
    \/ \E outcome \in EmbedOutcomes : IngEmbed(outcome)
    \/ \E outcome \in StoreOutcomes : IngStore(outcome)
    \/ IngFinish
    \/ IngReturnTrue
    \/ Poll

SpecIngest == InitIngest /\ [][NextIngest]_vars

-----------------------------------------------------------------------------
(* SpecEmbed: one generate_embeddings call, one batch per step *)

InitEmbed ==
    /\ WebOff
    /\ SessionOff
    /\ IngestOff
    /\ \E texts \in SeqsUpTo(EmbedTexts, MaxTexts), batch_size \in 1..MaxBatch :
          emb = [pc |-> "call", texts |-> texts, batch_size |-> batch_size,
                 i |-> 0, all_embeddings |-> <<>>, failed |-> {},
                 events |-> <<>>, ret |-> None]

(* lines 64-66: no texts, return [] *)
EmbedNoTexts ==
    /\ emb.pc = "call"
    /\ emb.texts = <<>>
    /\ emb' = [emb EXCEPT !.pc = "done", !.ret = <<>>]
    /\ UNCHANGED <<sessionVars, q, ctx, ingestVars, callVars>>

(* line 68: all_embeddings = [] and the loop is entered *)
EmbedStart ==
    /\ emb.pc = "call"
    /\ emb.texts # <<>>
    /\ emb' = [emb EXCEPT !.pc = "loop"]
    /\ UNCHANGED <<sessionVars, q, ctx, ingestVars, callVars>>

(* mutant: a failed batch ends the loop *)
EmbedBatchStopOnFailure(fails) ==
    /\ emb.pc = "loop"
    /\ emb.i < Len(emb.texts)
    /\ LET batch == Batch(emb.texts, emb.i, emb.batch_size)
           r == embed_documents(batch, fails)
           more == emb.i + emb.batch_size < Len(emb.texts)
       IN  emb' = [emb EXCEPT
                     !.all_embeddings =
                         @ \o (IF r.exc THEN [k \in 1..Len(batch) |-> <<>>]
                                ELSE r.val),
                     !.events = @ \o <<[ev |-> "call", i |-> emb.i]>>
                                  \o (IF ~r.exc /\ more
                                      THEN <<[ev |-> "sleep", i |-> emb.i]>>
                                      ELSE <<>>),
                     !.failed = IF r.exc THEN @ \cup {emb.i} ELSE @,
                     !.i = IF r.exc THEN Len(emb.texts)
                           ELSE @ + emb.batch_size]
    /\ UNCHANGED <<sessionVars, q, ctx, ingestVars, callVars>>

(* lines 71-91: one iteration of the batch loop.  On success the vectors
   are appended and, when another batch follows, the call sleeps; on an
   exception one empty vector per text of the batch is appended. *)
EmbedBatch(fails) ==
    /\ emb.pc = "loop"
    /\ emb.i < Len(emb.texts)
    /\ LET batch == Batch(emb.texts, emb.i, emb.batch_size)
           r == embed_documents(batch, fails)
           more == emb.i + emb.batch_size < Len(emb.texts)
       IN  emb' = [emb EXCEPT
                     !.all_embeddings =
                         @ \o (IF r.exc THEN [k \in 1..Len(batch) |-> <<>>]
                                ELSE r.val),
                     !.events = @ \o <<[ev |-> "call", i |-> emb.i]>>
                                  \o (IF ~r.exc /\ more
                                      THEN <<[ev |-> "sleep", i |-> emb.i]>>
                                      ELSE <<>>),
                     !.failed = IF r.exc THEN @ \cup {emb.i} ELSE @,
                     !.i = @ + emb.batch_size]
    /\ UNCHANGED <<sessionVars, q, ctx, ingestVars, callVars>>

(* lines 93-94: the loop is over, return all_embeddings *)
EmbedReturn ==
    /\ emb.pc = "loop"
    /\ emb.i >= Len(emb.texts)
    /\ emb' = [emb EXCEPT !.pc = "done", !.ret = emb.all_embeddings]
    /\ UNCHANGED <<sessionVars, q, ctx, ingestVars, callVars>>

NextEmbed ==
    \/ EmbedNoTexts
    \/ EmbedStart
    \/ \E fails \in BOOLEAN : EmbedBatch(fails)
    \/ EmbedReturn

SpecEmbed == InitEmbed /\ [][NextEmbed]_vars

-----------------------------------------------------------------------------
(* Properties of the generation request (SpecQuery) *)

FinalTurn(request) == request[Len(request)]

(* C11 as claimed: the final user turn is the context-based form if and only
   if the context is non-empty and longer than 100 characters, otherwise the
   knowledge-only form; with no documents the context is empty, the form is
   knowledge-only and the result lists no chunk. *)
C11_ContextFormOver100 ==
    (q.pc \in {"result", "done"} /\ Len(q.requests) > 0) =>
        /\ FinalTurn(q.requests[1]) =
               [role |-> "user",
                content |-> IF q.context # "" /\ Len(q.context) > 100
                            THEN ContextMessage(q.query, q.context)
                            ELSE KnowledgeMessage(q.query)]
        /\ q.documents = <<>> =>
               /\ q.context = ""
               /\ FinalTurn(q.requests[1]).content = KnowledgeMessage(q.query)
               /\ q.pc = "done" => q.result.retrieved_documents = <<>>

(* C11 as amended: the final user turn is the context-based form if and only
   if the context, with its leading and trailing whitespace removed, is
   longer than 100 characters, otherwise the knowledge-only form; with no
   documents the context is empty, the form is knowledge-only and the result
   lists no chunk. *)
C11_ContextFormStrippedOver100 ==
    (q.pc \in {"result", "done"} /\ Len(q.requests) > 0) =>
        /\ FinalTurn(q.requests[1]) =
               [role |-> "user",
                content |-> IF Len(Strip(q.context)) > 100
                            THEN ContextMessage(q.query, q.context)
                            ELSE KnowledgeMessage(q.query)]
        /\ q.documents = <<>> =>
               /\ q.context = ""
               /\ FinalTurn(q.requests[1]).content = KnowledgeMessage(q.query)
               /\ q.pc = "done" => q.result.retrieved_documents = <<>>

(* a context of 101 characters, 100 once stripped, sent in the knowledge-only
   form *)
C11_Witness ==
    /\ q.pc = "done"
    /\ Len(q.requests) = 1
    /\ Len(q.context) = 101
    /\ FinalTurn(q.requests[1]).content = KnowledgeMessage(q.query)

(* C12: answering a query that reaches generation invokes the generation
   service exactly once, and never more than once; when that call fails the
   answer is the fixed apology string and nothing is raised. *)
C12_OneGenerationCall ==
    /\ Len(q.requests) <= 1
    /\ q.pc = "done" =>
           /\ ~q.raised
           /\ q.fault # "context" => Len(q.requests) = 1
           /\ q.fault = "generate" =>
                  /\ Len(q.requests) = 1
                  /\ q.result.answer = GenApology
                  /\ q.answer = GenApology

(* the single generation call failed and the query returned the apology *)
C12_Witness ==
    /\ q.pc = "done"
    /\ q.fault = "generate"
    /\ Len(q.requests) = 1
    /\ q.result.answer = GenApology
    /\ Len(q.result.retrieved_documents) > 0

-----------------------------------------------------------------------------
(* Properties of generate_embeddings (SpecEmbed) *)

(* the loop index of the batch that holds text k (k counted from 1) *)
BatchStartOf(k, batch_size) == ((k - 1) \div batch_size) * batch_size

NumBatches(n, batch_size) == (n + batch_size - 1) \div batch_size

CallEvents == SelectSeq(emb.events, LAMBDA e : e.ev = "call")

(* C13: for n >= 1 texts, any batch_size >= 1 and any set of failing
   batches, generate_embeddings returns (it does not raise) exactly n
   vectors in input order: the empty vector where the batch holding the
   text failed, the service's vector for that text otherwise; every batch is
   sent to the service, also after a failed one. *)
C13_OneVectorPerText ==
    (emb.pc = "done" /\ Len(emb.texts) >= 1) =>
        /\ emb.ret # None
        /\ Len(emb.ret) = Len(emb.texts)
        /\ \A k \in 1..Len(emb.texts) :
               emb.ret[k] =
                   IF BatchStartOf(k, emb.batch_size) \in emb.failed
                   THEN <<>>
                   ELSE ServiceVector(emb.texts[k])
        /\ CallEvents =
               [j \in 1..NumBatches(Len(emb.texts), emb.batch_size) |->
                   [ev |-> "call", i |-> (j - 1) * emb.batch_size]]

(* four texts in batches of two, the first batch failed and the second
   was still sent and answered *)
C13_Witness ==
    /\ emb.pc = "done"
    /\ Len(emb.texts) = 4
    /\ emb.batch_size = 2
    /\ emb.failed = {0}
    /\ emb.ret[1] = <<>> /\ emb.ret[2] = <<>>
    /\ emb.ret[3] = ServiceVector(emb.texts[3])
    /\ emb.ret[4] = ServiceVector(emb.texts[4])

(* C14: within one generate_embeddings call a pacing delay takes place
   between every two consecutive calls to the embedding service, whether the
   earlier batch succeeded or failed: no call event directly follows
   another. *)
C14_DelayBetweenCalls ==
    \A j \in 1..(Len(emb.events) - 1) :
        ~(emb.events[j].ev = "call" /\ emb.events[j + 1].ev = "call")

-----------------------------------------------------------------------------
(* Properties of the ingestion run (SpecIngest) *)

Stages == <<"extract", "split", "embed", "store">>

(* the stage operations carried out for the file at index k *)
FileOps(k) == SelectSeq(ing.ops, LAMBDA o : o.file_index = k)

(* the loop over the existing files has run to its end *)
LoopOver ==
    /\ ing.pc \in {"final", "done"}
    /\ ing.existing_files # <<>>
    /\ ing.file_index >= Len(ing.existing_files)

(* C15: a failure of extraction, chunking, embedding or storing (an
   exception, or add_chunks returning false) affects only its own file:
   every file of the batch is taken through extract, chunk, embed, store up
   to its own first failure whatever happened to the files before it, and
   the records an earlier add put into the store stay there. *)
C15_FailureIsolated ==
    /\ LoopOver =>
           \A k \in 0..(Len(ing.existing_files) - 1) :
               LET F == FileOps(k)
               IN  /\ Len(F) \in 1..4
                   /\ \A j \in 1..Len(F) : F[j].op = Stages[j]
                   /\ \A j \in 1..(Len(F) - 1) : F[j].outcome # "raise"
                   /\ Len(F) < 4 => F[Len(F)].outcome = "raise"
    /\ ing.pc # "off" =>
           \A i \in 1..Len(ing.adds) :
               \A id \in DOMAIN ing.adds[i].post :
                   ing.adds[i].post[id].metadata.file_path = ing.adds[i].path
                   => /\ id \in DOMAIN store
                      /\ store[id] = ing.adds[i].post[id]

(* the first file was stored, the second failed, the third was stored, and
   the first file's records are still in the store *)
C15_Witness ==
    /\ LoopOver
    /\ Len(ing.existing_files) >= 2
    /\ \E i \in 1..Len(ing.adds) :
           /\ ing.adds[i].file_index = 0
           /\ ing.adds[i].success
           /\ DOMAIN ing.adds[i].post \subseteq DOMAIN store
    /\ \E o \in {ing.ops[j] : j \in 1..Len(ing.ops)} :
           /\ o.file_index = 1
           /\ o.outcome \in {"raise", "add_raises"}
    /\ Len(ing.existing_files) >= 3 =>
           \E i \in 1..Len(ing.adds) :
               ing.adds[i].file_index = 2 /\ ing.adds[i].success

(* C16: process_uploaded_files returns true if and only if at least one
   file of the batch went through all four stages and add_chunks stored it;
   it returns false when every file fails or no input file exists. *)
C16_TrueIffOneStored ==
    ing.pc = "done" =>
        /\ ing.ret = TRUE <=>
               \E i \in 1..Len(ing.adds) :
                   /\ ing.adds[i].success
                   /\ Len(FileOps(ing.adds[i].file_index)) = 4
        /\ ExistingFiles(ing.file_paths) = <<>> => ing.ret = FALSE

(* a run that returned true with one file stored and another one failed *)
C16_Witness ==
    /\ ing.pc = "done"
    /\ ing.ret = TRUE
    /\ Cardinality({i \in 1..Len(ing.adds) : ing.adds[i].success}) = 1
    /\ \E k \in 0..(Len(ing.existing_files) - 1) : Len(FileOps(k)) < 4

(* C17: every run ends with a terminal record as its last write, status
   'completed' when it returns true and 'error' when it returns false; after
   the return the last record is never 'starting' or 'processing'. *)
C17_TerminalRecord ==
    ing.pc = "done" =>
        /\ progress.writes # <<>>
        /\ progress.writes[Len(progress.writes)].rec.status =
               (IF ing.ret THEN "completed" ELSE "error")

ProgressStages ==
    <<"extracting", "chunking", "embedding", "storing", "completed_file">>

(* the stage events written for the file at index k *)
StageEvents(k) ==
    LET W == SelectSeq(progress.writes, LAMBDA w : w.file_index = k)
    IN  [j \in 1..Len(W) |-> W[j].rec.currentStage]

(* C18: for each file of a run the stage events written to the progress
   sink form a prefix of extracting, chunking, embedding, storing,
   completed_file, none skipped or repeated, and once the run has moved on
   from a file no further event is written for it. *)
C18_StagePrefix ==
    ing.pc # "off" =>
        /\ \A k \in 0..(Len(ing.file_paths) - 1) :
               /\ Len(StageEvents(k)) <= 5
               /\ StageEvents(k) = SubSeq(ProgressStages, 1, Len(StageEvents(k)))
        /\ \A i, j \in 1..Len(progress.writes) :
               (i < j /\ progress.writes[i].file_index >= 0
                      /\ progress.writes[j].file_index >= 0)
               => progress.writes[i].file_index <= progress.writes[j].file_index

(* the first file failed after its 'embedding' record, the second went
   through all five *)
C18_Witness ==
    /\ ing.pc = "done"
    /\ StageEvents(0) = <<"extracting", "chunking", "embedding">>
    /\ StageEvents(1) = ProgressStages

(* C19: a status poll at any point of the worker's run, also in the middle
   of a progress write, succeeds and carries the initial 'starting' record
   or a record the worker wrote completely; never an error. *)
C19_PollNeverFails ==
    poll # <<>> =>
        /\ poll[1].success
        /\ \/ poll[1].data = InitialRecord(ing.total_files)
           \/ \E i \in 1..Len(progress.writes) :
                  progress.writes[i].rec = poll[1].data

(* the chunk ids split_text gives the chunks of a path *)
ChunkIdsOf(path) ==
    {ChunkId(Basename(path), k - 1) : k \in 1..Len(ChunkTexts(path))}

(* C20: adding the chunks of a document that an earlier add already stored
   leaves the set of ids in the store and its item count unchanged: each
   id is overwritten in place, none duplicated. *)
C20_ReingestKeepsIds ==
    ing.pc # "off" =>
        \A i, j \in 1..Len(ing.adds) :
            (i < j /\ ing.adds[i].path = ing.adds[j].path
                   /\ ing.adds[i].added /\ ing.adds[j].added)
            => /\ DOMAIN ing.adds[j].post = DOMAIN ing.adds[j].pre
               /\ Cardinality(DOMAIN ing.adds[j].post) =
                      Cardinality(DOMAIN ing.adds[j].pre)
               /\ ChunkIdsOf(ing.adds[j].path) \subseteq DOMAIN ing.adds[j].post
               /\ \A k \in 1..Len(ChunkTexts(ing.adds[j].path)) :
                      ing.adds[j].post[ChunkId(Basename(ing.adds[j].path),
                                               k - 1)].text
                          = ChunkTexts(ing.adds[j].path)[k]

(* the same two-chunk file was stored twice in a run and the store holds
   its two ids *)
C20_Witness ==
    /\ ing.pc = "done"
    /\ \E i, j \in 1..Len(ing.adds) :
           /\ i < j
           /\ ing.adds[i].path = "uploads/a.pdf"
           /\ ing.adds[j].path = "uploads/a.pdf"
           /\ ing.adds[i].success /\ ing.adds[j].success
    /\ DOMAIN store = {"a.pdf_chunk_0", "a.pdf_chunk_1"}


(* C21: chunk ids are unique across files: an add never changes a record
   that the store holds for a file of another path. *)
C21_NoCrossFileOverwrite ==
    ing.pc # "off" =>
        \A i \in 1..Len(ing.adds) :
            \A id \in DOMAIN ing.adds[i].pre :
                ing.adds[i].pre[id].metadata.file_path # ing.adds[i].path
                => /\ id \in DOMAIN ing.adds[i].post
                   /\ ing.adds[i].post[id] = ing.adds[i].pre[id]

-----------------------------------------------------------------------------
(* SpecStore: add_chunks and reset_database calls on one VectorDatabase *)

(* the chunks a caller can hand to add_chunks: text (possibly blank), id,
   and the embedding generate_embeddings_with_metadata attached, empty
   where the batch failed *)
StoreChunks ==
    [text : {"tax", " "},
     chunk_id : {"a.pdf_chunk_0", "a.pdf_chunk_1"},
     file_path : {"uploads/a.pdf"},
     embedding : {<<>>, <<1>>, <<1, 2>>}]

(* VectorDatabase.delete_collection: a fresh client deletes the
   collection; an exception is caught and False returned *)
delete_collection(st, outcome) ==
    IF outcome = "raise" THEN [store |-> st, ret |-> FALSE]
    ELSE [store |-> <<>>, ret |-> TRUE]

(* VectorDatabase.reset_database: delete_collection's result is not
   looked at (line 248); Chroma(...) then opens the collection of that
   name, creating it if it is not there (lines 251-255) *)
reset_database(st, delete_outcome, recreate_outcome) ==
    LET deleted == delete_collection(st, delete_outcome)
    IN  [store |-> deleted.store, ret |-> recreate_outcome # "raise"]

(* VectorDatabase.get_collection_info: document_count *)
document_count(st) == Cardinality(DOMAIN st)

InitStore ==
    /\ WebOff
    /\ SessionOff
    /\ emb = [pc |-> "off"]
    /\ ing = [pc |-> "off"]
    /\ progress = [exists |-> FALSE, content |-> <<>>, writes |-> <<>>]
    /\ poll = <<>>
    /\ fn = [pc |-> "off"]
    /\ store = <<>>
    /\ db = [pc |-> "idle", last |-> <<>>, nOps |-> 0]

DbAddChunks(chunks, outcome) ==
    /\ db.pc = "idle"
    /\ db.nOps < MaxOps
    /\ LET r == add_chunks(store, chunks, outcome)
       IN  /\ store' = r.store
           /\ db' = [db EXCEPT !.nOps = @ + 1,
                               !.last = <<[op |-> "add_chunks",
                                           chunks |-> chunks, ret |-> r.ret,
                                           pre |-> store, post |-> r.store]>>]
    /\ UNCHANGED <<sessionVars, q, ctx, emb, ing, progress, poll, fn, web>>

DbResetDatabase(delete_outcome, recreate_outcome) ==
    /\ db.pc = "idle"
    /\ db.nOps < MaxOps
    /\ LET r == reset_database(store, delete_outcome, recreate_outcome)
       IN  /\ store' = r.store
           /\ db' = [db EXCEPT !.nOps = @ + 1,
                               !.last = <<[op |-> "reset_database",
                                           chunks |-> <<>>, ret |-> r.ret,
                                           pre |-> store, post |-> r.store]>>]
    /\ UNCHANGED <<sessionVars, q, ctx, emb, ing, progress, poll, fn, web>>

CallOutcomes == {"ok", "raise"}

NextStore ==
    \/ \E chunks \in SeqsUpTo(StoreChunks, MaxChunks),
          outcome \in StoreOutcomes : DbAddChunks(chunks, outcome)
    \/ \E delete_outcome \in CallOutcomes, recreate_outcome \in CallOutcomes :
          DbResetDatabase(delete_outcome, recreate_outcome)

SpecStore == InitStore /\ [][NextStore]_vars

-----------------------------------------------------------------------------
(* Properties of the vector store (SpecStore) *)

(* C22: whenever reset_database returns true the collection has been
   deleted and recreated: its item count is 0 and it holds no record of an
   earlier add. *)
C22_ResetEmptiesStore ==
    (db.pc = "idle" /\ db.last # <<>> /\ db.last[1].op = "reset_database"
                    /\ db.last[1].ret)
    => /\ document_count(store) = 0
       /\ store = <<>>

EmbeddingLengths(chunks) ==
    {Len(chunks[k].embedding) : k \in 1..Len(chunks)}

(* C23: an add whose chunks carry embedding vectors of differing length,
   empty vectors of a failed batch included, returns false and stores none
   of those chunks. *)
C23_MismatchRejected ==
    (db.pc = "idle" /\ db.last # <<>> /\ db.last[1].op = "add_chunks"
                    /\ Cardinality(EmbeddingLengths(db.last[1].chunks)) > 1)
    => /\ ~db.last[1].ret
       /\ db.last[1].post = db.last[1].pre

-----------------------------------------------------------------------------
(* SpecExtract: one extract_text_from_pdf call, one backend per step *)

UpperCase == "ABCDEFGHIJKLMNOPQRSTUVWXYZ"
LowerCase == "abcdefghijklmnopqrstuvwxyz"

(* str.lower() *)
RECURSIVE Lower(_)
Lower(str) ==
    IF str = "" THEN ""
    ELSE LET ch == SubSeq(str, 1, 1)
             up == {k \in 1..Len(UpperCase) : SubSeq(UpperCase, k, k) = ch}
         IN  (IF up = {} THEN ch
              ELSE LET k == CHOOSE j \in up : TRUE
                   IN  SubSeq(LowerCase, k, k))
             \o Lower(SubSeq(str, 2, Len(str)))

(* str.endswith *)
EndsWith(str, suffix) ==
    /\ Len(str) >= Len(suffix)
    /\ SubSeq(str, Len(str) - Len(suffix) + 1, Len(str)) = suffix

(* lines 46-49: the backends in the order they are tried *)
extraction_methods == <<"pdfplumber", "pypdf2">>

(* what a backend makes of a file: an exception, or the joined page texts *)
BackendOutcomes == {"raise", "", "\n\n", "Form 1040"}

(* _extract_with_pdfplumber / _extract_with_pypdf2 *)
ExtractWith(method, pdf_path, outcome) ==
    IF outcome = "raise" THEN Raise(method \o " failed")
    ELSE Ok([text |-> outcome,
             metadata |-> [source_file |-> Basename(pdf_path),
                           file_path |-> pdf_path,
                           extraction_method |-> method]])

ExtractPaths == {"uploads/a.pdf", "uploads/B.PDF", "uploads/notes.txt"}

InitExtract ==
    /\ WebOff
    /\ SessionOff
    /\ emb = [pc |-> "off"]
    /\ ing = [pc |-> "off"]
    /\ store = <<>>
    /\ progress = [exists |-> FALSE, content |-> <<>>, writes |-> <<>>]
    /\ poll = <<>>
    /\ db = [pc |-> "off"]
    /\ \E pdf_path \in ExtractPaths, exists \in BOOLEAN,
          outcomes \in [1..Len(extraction_methods) -> BackendOutcomes] :
          fn = [pc |-> "call", pdf_path |-> pdf_path, exists |-> exists,
                outcomes |-> outcomes, i |-> 1, calls |-> <<>>,
                ret |-> <<>>, raised |-> <<>>]

(* lines 39-43: the path must exist and end in .pdf *)
ExtractValidate ==
    /\ fn.pc = "call"
    /\ fn' = IF ~fn.exists
             THEN [fn EXCEPT !.pc = "done",
                             !.raised = <<"FileNotFoundError">>]
             ELSE IF ~EndsWith(Lower(fn.pdf_path), ".pdf")
             THEN [fn EXCEPT !.pc = "done", !.raised = <<"ValueError">>]
             ELSE [fn EXCEPT !.pc = "loop"]
    /\ UNCHANGED <<sessionVars, q, ctx, emb, ingestVars, db, web>>

(* mutant: the first backend that does not raise is taken, blank or not *)
ExtractTryAnyResult ==
    /\ fn.pc = "loop"
    /\ fn.i <= Len(extraction_methods)
    /\ LET method == extraction_methods[fn.i]
           r == ExtractWith(method, fn.pdf_path, fn.outcomes[fn.i])
           called == [fn EXCEPT !.calls = Append(@, method)]
       IN  fn' = IF ~r.exc
                 THEN [called EXCEPT !.pc = "done", !.ret = <<r.val>>]
                 ELSE [called EXCEPT !.i = @ + 1]
    /\ UNCHANGED <<sessionVars, q, ctx, emb, ingestVars, db, web>>

(* lines 51-59: one backend is tried; a result with non-blank text is
   returned, an exception or blank text moves on to the next backend *)
ExtractTry ==
    /\ fn.pc = "loop"
    /\ fn.i <= Len(extraction_methods)
    /\ LET method == extraction_methods[fn.i]
           r == ExtractWith(method, fn.pdf_path, fn.outcomes[fn.i])
           called == [fn EXCEPT !.calls = Append(@, method)]
       IN  fn' = IF ~r.exc /\ Strip(r.val.text) # ""
                 THEN [called EXCEPT !.pc = "done", !.ret = <<r.val>>]
                 ELSE [called EXCEPT !.i = @ + 1]
    /\ UNCHANGED <<sessionVars, q, ctx, emb, ingestVars, db, web>>

(* line 61: every backend was tried in vain *)
ExtractFail ==
    /\ fn.pc = "loop"
    /\ fn.i > Len(extraction_methods)
    /\ fn' = [fn EXCEPT !.pc = "done",
                        !.raised = <<"All extraction methods failed">>]
    /\ UNCHANGED <<sessionVars, q, ctx, emb, ingestVars, db, web>>

NextExtract ==
    \/ ExtractValidate
    \/ ExtractTry
    \/ ExtractFail

SpecExtract == InitExtract /\ [][NextExtract]_vars

-----------------------------------------------------------------------------
(* Properties of extract_text_from_pdf (SpecExtract) *)

(* the backend at position k yields non-blank text for the file *)
Yields(k) ==
    fn.outcomes[k] # "raise" /\ Strip(fn.outcomes[k]) # ""

(* C24: the backends are tried in the order pdfplumber, PyPDF2; the second
   is invoked only when the first raised or gave blank text; the document
   returned is that of the first backend in order that yields non-blank
   text; an error is raised only when no backend invoked yielded non-blank
   text (a path that does not exist or does not end in .pdf raises before
   any backend is invoked). *)
C24_BackendOrder ==
    fn.pc \in {"loop", "done"} =>
        /\ fn.calls = SubSeq(extraction_methods, 1, Len(fn.calls))
        /\ \A k \in 2..Len(fn.calls) : ~Yields(k - 1)
        /\ fn.pc = "done" =>
               /\ (fn.ret = <<>>) # (fn.raised = <<>>)
               /\ fn.ret # <<>> =>
                      /\ Yields(Len(fn.calls))
                      /\ \A k \in 1..(Len(fn.calls) - 1) : ~Yields(k)
                      /\ fn.ret[1].metadata.extraction_method
                             = extraction_methods[Len(fn.calls)]
                      /\ fn.ret[1].text = fn.outcomes[Len(fn.calls)]
               /\ fn.raised # <<>> =>
                      /\ \A k \in 1..Len(fn.calls) : ~Yields(k)
                      /\ fn.calls = <<>> \/ fn.calls = extraction_methods
               /\ (fn.exists /\ EndsWith(Lower(fn.pdf_path), ".pdf")) =>
                      (fn.raised # <<>> <=>
                           \A k \in 1..Len(extraction_methods) : ~Yields(k))

(* the first backend gave blank text and the second one's document was
   returned *)
C24_Witness ==
    /\ fn.pc = "done"
    /\ fn.calls = <<"pdfplumber", "pypdf2">>
    /\ fn.outcomes[1] = "\n\n"
    /\ fn.ret # <<>>
    /\ fn.ret[1].metadata.extraction_method = "pypdf2"

-----------------------------------------------------------------------------
(* SpecClean: _clean_text on raw page texts; a text is the sequence of its
   code points *)

MaxRaw == 5

NUL == 0
BOM == 65279
Newline == 10
Space == 32

(* the characters str.split() and str.strip() treat as whitespace, among
   the code points below 128 *)
Whitespace == {9, 10, 11, 12, 13, 28, 29, 30, 31, 32}

(* raw page texts: NUL, BOM, newline, space, the digit 7, the letter a *)
RawChars == {NUL, BOM, Newline, Space, 55, 97}

RawTexts == UNION {[1..n -> RawChars] : n \in 0..MaxRaw}

(* str.split(sep) for the separators in seps: the pieces between
   separators, empty pieces included *)
RECURSIVE SplitOn(_, _)
SplitOn(text, seps) ==
    LET at == {k \in 1..Len(text) : text[k] \in seps}
    IN  IF at = {} THEN <<text>>
        ELSE LET k == CHOOSE j \in at : \A m \in at : j <= m
             IN  <<SubSeq(text, 1, k - 1)>>
                     \o SplitOn(SubSeq(text, k + 1, Len(text)), seps)

NonEmpty(piece) == piece # <<>>

(* str.split() without argument: the maximal runs of non-whitespace *)
SplitWords(text) == SelectSeq(SplitOn(text, Whitespace), NonEmpty)

(* sep.join(pieces) *)
RECURSIVE JoinText(_, _)
JoinText(sep, pieces) ==
    IF pieces = <<>> THEN <<>>
    ELSE IF Len(pieces) = 1 THEN pieces[1]
    ELSE pieces[1] \o sep \o JoinText(sep, Tail(pieces))

(* str.replace(ch, '') *)
RECURSIVE Remove(_, _)
Remove(text, ch) ==
    IF text = <<>> THEN <<>>
    ELSE (IF Head(text) = ch THEN <<>> ELSE <<Head(text)>>)
             \o Remove(Tail(text), ch)

(* str.strip() *)
RECURSIVE StripText(_)
StripText(text) ==
    IF text = <<>> THEN <<>>
    ELSE IF Head(text) \in Whitespace THEN StripText(Tail(text))
    ELSE IF text[Len(text)] \in Whitespace
         THEN StripText(SubSeq(text, 1, Len(text) - 1))
    ELSE text

(* str.isdigit() *)
IsDigit(line) ==
    /\ line # <<>>
    /\ \A k \in 1..Len(line) : line[k] \in 48..57

(* lines 169-176: a line is kept unless it is a number of at most 3 digits
   or shorter than 3 characters *)
KeptLine(line) ==
    /\ ~(IsDigit(line) /\ Len(line) <= 3)
    /\ Len(line) >= 3

RECURSIVE StripEach(_)
StripEach(lines) ==
    IF lines = <<>> THEN <<>>
    ELSE <<StripText(Head(lines))>> \o StripEach(Tail(lines))

(* _clean_text, in the order of its statements: whitespace runs collapsed
   (158), NUL and BOM removed (161-162), the result cut into lines (165),
   each stripped and filtered (168-176), the kept lines joined (178) *)
clean_text(text) ==
    IF text = <<>> THEN <<>>
    ELSE LET collapsed == JoinText(<<Space>>, SplitWords(text))
             no_nul == Remove(collapsed, NUL)
             no_bom == Remove(no_nul, BOM)
             lines == SplitOn(no_bom, {Newline})
             cleaned_lines == SelectSeq(StripEach(lines), KeptLine)
         IN  JoinText(<<Newline>>, cleaned_lines)

InitClean ==
    /\ WebOff
    /\ SessionOff
    /\ emb = [pc |-> "off"]
    /\ ing = [pc |-> "off"]
    /\ store = <<>>
    /\ progress = [exists |-> FALSE, content |-> <<>>, writes |-> <<>>]
    /\ poll = <<>>
    /\ db = [pc |-> "off"]
    /\ \E text \in RawTexts : fn = [pc |-> "call", text |-> text, ret |-> <<>>]

CleanText ==
    /\ fn.pc = "call"
    /\ fn' = [fn EXCEPT !.pc = "done", !.ret = clean_text(fn.text)]
    /\ UNCHANGED <<sessionVars, q, ctx, emb, ingestVars, db, web>>

NextClean == CleanText

SpecClean == InitClean /\ [][NextClean]_vars

-----------------------------------------------------------------------------
(* Properties of _clean_text (SpecClean) *)

(* C25: the output of _clean_text holds no NUL, no byte-order mark and no
   two consecutive whitespace characters.  Violated: a NUL or BOM standing
   between two spaces is removed after the whitespace was collapsed. *)
C25_NoArtifactsNoRuns ==
    fn.pc = "done" =>
        /\ \A k \in 1..Len(fn.ret) : fn.ret[k] \notin {NUL, BOM}
        /\ \A k \in 1..(Len(fn.ret) - 1) :
               ~(fn.ret[k] \in Whitespace /\ fn.ret[k + 1] \in Whitespace)

(* the words of the input lines that pass the line filter, in order *)
RECURSIVE WordsOfKeptLines(_)
WordsOfKeptLines(lines) ==
    IF lines = <<>> THEN <<>>
    ELSE LET line == StripText(Remove(Remove(
                         JoinText(<<Space>>, SplitWords(Head(lines))), NUL), BOM))
         IN  (IF KeptLine(line) THEN SplitWords(line) ELSE <<>>)
                 \o WordsOfKeptLines(Tail(lines))

(* C26: the cleaned text is built only from the input lines that have at
   least 3 characters and are not numbers of at most 3 digits.  Violated:
   the text is cut into lines after every newline was already replaced by
   a space, so the filter sees the whole page as one line. *)
C26_OnlyKeptLines ==
    fn.pc = "done" =>
        SplitWords(fn.ret) = WordsOfKeptLines(SplitOn(fn.text, {Newline}))

-----------------------------------------------------------------------------
(* SpecSplit: TextSplitter.split_text on a text under a configuration.
   The cutting is done by the RecursiveCharacterTextSplitter that
   TextSplitter.__init__ configures (length_function=len, the four
   separators, is_separator_regex=False; keep_separator and
   strip_whitespace at their defaults, True). *)

MaxSplitText == 6
MaxChunkSize == 4

(* line 38-43: paragraphs, lines, words, characters *)
Separators == <<"\n\n", "\n", " ", "">>

SplitChars == {"a", "b", " ", "\n"}

RECURSIVE StringsOfLen(_)
StringsOfLen(n) ==
    IF n = 0 THEN {""}
    ELSE {str \o ch : str \in StringsOfLen(n - 1), ch \in SplitChars}

SplitInputs == UNION {StringsOfLen(n) : n \in 0..MaxSplitText}

(* sep in text *)
Contains(text, sep) ==
    \E k \in 1..(Len(text) - Len(sep) + 1) :
        SubSeq(text, k, k + Len(sep) - 1) = sep

(* text.split(sep) for a non-empty sep *)
RECURSIVE StrSplit(_, _)
StrSplit(text, sep) ==
    IF ~Contains(text, sep) THEN <<text>>
    ELSE LET k == CHOOSE j \in 1..(Len(text) - Len(sep) + 1) :
                      /\ SubSeq(text, j, j + Len(sep) - 1) = sep
                      /\ \A m \in 1..(j - 1) :
                             SubSeq(text, m, m + Len(sep) - 1) # sep
         IN  <<SubSeq(text, 1, k - 1)>>
                 \o StrSplit(SubSeq(text, k + Len(sep), Len(text)), sep)

NotEmptyStr(str) == str # ""

(* the pieces the splitter cuts a text into at a separator: each piece but
   the first keeps the separator in front of it, empty pieces are dropped;
   the empty separator cuts into characters *)
SplitKeep(text, sep) ==
    IF sep = "" THEN [k \in 1..Len(text) |-> SubSeq(text, k, k)]
    ELSE LET pieces == StrSplit(text, sep)
         IN  SelectSeq([k \in 1..Len(pieces) |->
                           IF k = 1 THEN pieces[1] ELSE sep \o pieces[k]],
                       NotEmptyStr)

(* the joined pieces, stripped; nothing when that is empty *)
JoinDocs(current_doc) ==
    LET text == Strip(Join(current_doc, ""))
    IN  IF text = "" THEN <<>> ELSE <<text>>

(* the pieces dropped from the front of the window once a chunk is emitted:
   until the window is no longer than the overlap and the next piece fits *)
RECURSIVE DropFront(_, _, _, _)
DropFront(current_doc, len, chunk_size, chunk_overlap) ==
    LET total == SumLen(current_doc)
    IN  IF total > chunk_overlap \/ (total + len > chunk_size /\ total > 0)
        THEN DropFront(Tail(current_doc), len, chunk_size, chunk_overlap)
        ELSE current_doc

(* the merging of small pieces into chunks: pieces are appended to a window
   while they fit in chunk_size; when the next does not, the window is
   emitted and its tail, at most chunk_overlap long, starts the next one *)
RECURSIVE MergeSplits(_, _, _, _)
MergeSplits(splits, current_doc, chunk_size, chunk_overlap) ==
    IF splits = <<>> THEN JoinDocs(current_doc)
    ELSE LET d == Head(splits)
         IN  IF SumLen(current_doc) + Len(d) > chunk_size
                    /\ current_doc # <<>>
             THEN JoinDocs(current_doc)
                      \o MergeSplits(Tail(splits),
                             Append(DropFront(current_doc, Len(d),
                                              chunk_size, chunk_overlap), d),
                             chunk_size, chunk_overlap)
             ELSE MergeSplits(Tail(splits), Append(current_doc, d),
                              chunk_size, chunk_overlap)

(* the first separator of the list that occurs in the text (the empty one
   always does) *)
SeparatorIndex(text, separators) ==
    CHOOSE i \in 1..Len(separators) :
        /\ separators[i] = "" \/ Contains(text, separators[i])
        /\ \A j \in 1..(i - 1) :
               ~(separators[j] = "" \/ Contains(text, separators[j]))

RECURSIVE RecursiveSplit(_, _, _, _)
RECURSIVE SplitPieces(_, _, _, _, _)

(* the pieces in order: those shorter than chunk_size are collected and
   merged, a longer one is cut again at the next separators (or kept as it
   is when none is left) *)
SplitPieces(splits, good_splits, new_separators, chunk_size, chunk_overlap) ==
    IF splits = <<>>
    THEN IF good_splits # <<>>
         THEN MergeSplits(good_splits, <<>>, chunk_size, chunk_overlap)
         ELSE <<>>
    ELSE LET piece == Head(splits)
         IN  IF Len(piece) < chunk_size
             THEN SplitPieces(Tail(splits), Append(good_splits, piece),
                              new_separators, chunk_size, chunk_overlap)
             ELSE (IF good_splits # <<>>
                   THEN MergeSplits(good_splits, <<>>, chunk_size,
                                    chunk_overlap)
                   ELSE <<>>)
                  \o (IF new_separators = <<>> THEN <<piece>>
                      ELSE RecursiveSplit(piece, new_separators, chunk_size,
                                          chunk_overlap))
                  \o SplitPieces(Tail(splits), <<>>, new_separators,
                                 chunk_size, chunk_overlap)

(* RecursiveCharacterTextSplitter.split_text *)
RecursiveSplit(text, separators, chunk_size, chunk_overlap) ==
    LET i == SeparatorIndex(text, separators)
        new_separators ==
            IF separators[i] = "" THEN <<>>
            ELSE SubSeq(separators, i + 1, Len(separators))
    IN  SplitPieces(SplitKeep(text, separators[i]), <<>>, new_separators,
                    chunk_size, chunk_overlap)

SplitMetadata == [source_file |-> "a.pdf", file_path |-> "uploads/a.pdf"]

InitSplit ==
    /\ WebOff
    /\ SessionOff
    /\ emb = [pc |-> "off"]
    /\ ing = [pc |-> "off"]
    /\ store = <<>>
    /\ progress = [exists |-> FALSE, content |-> <<>>, writes |-> <<>>]
    /\ poll = <<>>
    /\ db = [pc |-> "off"]
    /\ \E text \in SplitInputs, chunk_size \in 1..MaxChunkSize :
          \E chunk_overlap \in 0..(chunk_size - 1) :
              fn = [pc |-> "call", text |-> text, chunk_size |-> chunk_size,
                    chunk_overlap |-> chunk_overlap, ret |-> <<>>]

(* TextSplitter.split_text: nothing for a blank text (62-64), else the
   library's chunks, one record each (66-81) *)
SplitText ==
    /\ fn.pc = "call"
    /\ fn' = [fn EXCEPT
                !.pc = "done",
                !.ret = IF fn.text = "" \/ Strip(fn.text) = "" THEN <<>>
                        ELSE split_text(RecursiveSplit(fn.text, Separators,
                                            fn.chunk_size, fn.chunk_overlap),
                                        SplitMetadata, "ok").val]
    /\ UNCHANGED <<sessionVars, q, ctx, emb, ingestVars, db, web>>

NextSplit == SplitText

SpecSplit == InitSplit /\ [][NextSplit]_vars

-----------------------------------------------------------------------------
(* Properties of TextSplitter.split_text (SpecSplit) *)

(* C27: under every configuration with overlap < chunk_size each chunk has
   at most chunk_size characters, and its recorded chunk_size is the length
   of its text. *)
C27_ChunkBudget ==
    fn.pc = "done" =>
        \A k \in 1..Len(fn.ret) :
            /\ Len(fn.ret[k].text) <= fn.chunk_size
            /\ fn.ret[k].chunk_size = Len(fn.ret[k].text)

(* a text longer than chunk_size was cut into several chunks, one of them
   shorter than the others *)
C27_Witness ==
    /\ fn.pc = "done"
    /\ Len(fn.text) > fn.chunk_size
    /\ Len(fn.ret) >= 3
    /\ Len(fn.ret[1].text) = fn.chunk_size
    /\ Len(fn.ret[Len(fn.ret)].text) < fn.chunk_size

(* C28: of two adjacent chunks of a document the later begins with text
   that ends the earlier, at most chunk_overlap characters of it (stated for
   the configurations that ask for an overlap).  Violated: the window that
   starts the next chunk is made of whole pieces, so it is empty whenever
   the last piece of a chunk is longer than chunk_overlap, and chunks cut
   from different paragraphs are merged apart from each other. *)
C28_AdjacentOverlap ==
    (fn.pc = "done" /\ fn.chunk_overlap >= 1) =>
        \A k \in 1..(Len(fn.ret) - 1) :
            \E n \in 1..fn.chunk_overlap :
                /\ n <= Len(fn.ret[k].text)
                /\ n <= Len(fn.ret[k + 1].text)
                /\ SubSeq(fn.ret[k + 1].text, 1, n)
                       = SubSeq(fn.ret[k].text,
                                Len(fn.ret[k].text) - n + 1,
                                Len(fn.ret[k].text))

-----------------------------------------------------------------------------
(* SpecValidate: validate_embeddings on a value.  What the function looks
   at is the type of each item and, of a list, the types of its elements;
   a value is given as just that. *)

MaxVectors == 3

PyList(element_types) == [type |-> "list", elems |-> element_types]
PyOther(type) == [type |-> type, elems |-> <<>>]

(* the items a caller can pass: a string, None, and lists that are empty,
   numeric, or hold a non-number *)
VectorItems ==
    {PyOther("str"), PyOther("NoneType"),
     PyList(<<>>), PyList(<<"float">>), PyList(<<"float", "int">>),
     PyList(<<"float", "str">>), PyList(<<"NoneType">>)}

(* how validate_embeddings sees a vector returned by generate_embeddings:
   a list of floats, as long as the vector *)
AsPyList(vector) == PyList([k \in 1..Len(vector) |-> "float"])

(* the sets of failing batches of a generate_embeddings call *)
BatchStarts(texts, batch_size) ==
    {i \in 0..(Len(texts) - 1) : i % batch_size = 0}

(* isinstance(x, (int, float)) *)
IsNumber(type) == type \in {"int", "float"}

(* lines 166-182: the count of items that are non-empty lists of numbers *)
RECURSIVE valid_embeddings(_)
valid_embeddings(embeddings) ==
    IF embeddings = <<>> THEN 0
    ELSE LET embedding == Head(embeddings)
             rest == valid_embeddings(Tail(embeddings))
         IN  IF embedding.type # "list" THEN rest
             ELSE IF Len(embedding.elems) = 0 THEN rest
             ELSE IF ~(\A k \in 1..Len(embedding.elems) :
                           IsNumber(embedding.elems[k])) THEN rest
             ELSE rest + 1

(* mutant: one valid vector is enough *)
validate_embeddings_any(embeddings) ==
    IF embeddings = <<>> THEN FALSE
    ELSE valid_embeddings(embeddings) > 0

(* EmbeddingsGenerator.validate_embeddings *)
validate_embeddings(embeddings) ==
    IF embeddings = <<>> THEN FALSE
    ELSE valid_embeddings(embeddings) = Len(embeddings)

InitValidate ==
    /\ WebOff
    /\ SessionOff
    /\ emb = [pc |-> "off"]
    /\ ing = [pc |-> "off"]
    /\ store = <<>>
    /\ progress = [exists |-> FALSE, content |-> <<>>, writes |-> <<>>]
    /\ poll = <<>>
    /\ db = [pc |-> "off"]
    /\ \/ \E embeddings \in SeqsUpTo(VectorItems, MaxVectors) :
             fn = [pc |-> "call", embeddings |-> embeddings,
                   embedded |-> FALSE, failed |-> {}, ret |-> FALSE]
       \/ \E texts \in SeqsUpTo(EmbedTexts, MaxVectors),
             batch_size \in 1..MaxBatch :
             \E failed \in SUBSET BatchStarts(texts, batch_size) :
                 LET vectors == generate_embeddings(texts, batch_size, 0,
                                                    failed)
                 IN  fn = [pc |-> "call",
                           embeddings |-> [k \in 1..Len(vectors) |->
                                              AsPyList(vectors[k])],
                           embedded |-> TRUE, failed |-> failed,
                           ret |-> FALSE]

ValidateEmbeddings ==
    /\ fn.pc = "call"
    /\ fn' = [fn EXCEPT !.pc = "done",
                        !.ret = validate_embeddings(fn.embeddings)]
    /\ UNCHANGED <<sessionVars, q, ctx, emb, ingestVars, db, web>>

NextValidate == ValidateEmbeddings

SpecValidate == InitValidate /\ [][NextValidate]_vars

-----------------------------------------------------------------------------
(* Properties of validate_embeddings (SpecValidate) *)

(* C29: validate_embeddings returns true exactly when the list is not empty
   and every item is a non-empty list of numbers; the vectors of an embed
   call in which a batch failed never validate. *)
C29_ValidIffAllNumeric ==
    fn.pc = "done" =>
        /\ fn.ret <=>
               /\ Len(fn.embeddings) >= 1
               /\ \A k \in 1..Len(fn.embeddings) :
                      /\ fn.embeddings[k].type = "list"
                      /\ fn.embeddings[k].elems # <<>>
                      /\ \A j \in 1..Len(fn.embeddings[k].elems) :
                             fn.embeddings[k].elems[j] \in {"int", "float"}
        /\ (fn.embedded /\ fn.failed # {}) => ~fn.ret

(* an embed call of several batches, one of them failed, was validated *)
C29_Witness ==
    /\ fn.pc = "done"
    /\ fn.embedded
    /\ fn.failed # {}
    /\ \E k \in 1..Len(fn.embeddings) : fn.embeddings[k].elems # <<>>
    /\ ~fn.ret

-----------------------------------------------------------------------------
(* Properties of an ingestion run without the credential (SpecIngest) *)

(* C30: in a run started without OPENAI_API_KEY no file is extracted, split
   or embedded and add_chunks is never called: the store stays as the run
   found it, and the run returns False. *)
C30_NoKeyNoWork ==
    (ing.pc # "off" /\ ~ing.api_key) =>
        /\ ing.ops = <<>>
        /\ ing.adds = <<>>
        /\ ing.pc \notin {"file", "extract", "split", "embed", "store", "final"}
        /\ store = ing.store0
        /\ ing.pc = "done" => ing.ret = FALSE

(* a run over files that exist, stopped by the missing key *)
C30_Witness ==
    /\ ing.pc = "done"
    /\ ~ing.api_key
    /\ Len(ing.existing_files) >= 2
    /\ ing.ret = FALSE
    /\ store # <<>>

-----------------------------------------------------------------------------
(* SpecMeta: the metadata add_chunks prepares for a chunk.  A value is
   given by its type and its printed form, which is all the loop of lines
   92-100 looks at. *)

PyValue(type, repr) == [type |-> type, repr |-> repr]

(* str(value) *)
PyStr(value) == PyValue("str", value.repr)

(* the values the pipeline puts into a chunk: strings and numbers from
   split_text, the page_metadata list of dicts of the extractor, and lists
   and dicts in general *)
ChunkValues ==
    {PyValue("str", "a.pdf"), PyValue("int", "3"), PyValue("float", "0.5"),
     PyValue("bool", "True"), PyValue("dict", "{'page': 1}"),
     PyValue("list", "[1, 2]"), PyValue("list", "[{'page_number': 1}]")}

OptionalKeys == {"embedding", "page_metadata"}

(* chunk dictionaries: text and chunk_id, total_pages, and any of the
   optional keys *)
MetaChunks ==
    UNION {[text : {PyValue("str", "tax"), PyValue("str", " ")},
            chunk_id : {PyValue("str", "a.pdf_chunk_0")},
            total_pages : ChunkValues]}
    \cup UNION {{[key \in DOMAIN base \cup optional |->
                     IF key \in DOMAIN base THEN base[key] ELSE extra[key]] :
                   base \in [text : {PyValue("str", "tax"), PyValue("str", " ")},
                             chunk_id : {PyValue("str", "a.pdf_chunk_0")},
                             total_pages : ChunkValues],
                   extra \in [optional -> ChunkValues]} :
                optional \in (SUBSET OptionalKeys) \ {{}}}

(* isinstance(value, (dict, list)) *)
IsNested(value) == value.type \in {"dict", "list"}

(* mutant: every value but the text is copied as it is *)
PrepareMetadataCopy(chunk) ==
    [key \in DOMAIN chunk \ {"text", "embedding"} |-> chunk[key]]

(* lines 92-100: every key but 'text' and 'embedding'; a dict or a list is
   replaced by its str() *)
PrepareMetadata(chunk) ==
    [key \in DOMAIN chunk \ {"text", "embedding"} |->
        IF IsNested(chunk[key]) THEN PyStr(chunk[key]) ELSE chunk[key]]

(* lines 84-103: the metadatas handed to add_texts; a chunk with blank text
   is skipped *)
RECURSIVE PreparedMetadatas(_)
PreparedMetadatas(chunks) ==
    IF chunks = <<>> THEN <<>>
    ELSE (IF Strip(Head(chunks).text.repr) = "" THEN <<>>
          ELSE <<PrepareMetadata(Head(chunks))>>)
         \o PreparedMetadatas(Tail(chunks))

InitMeta ==
    /\ WebOff
    /\ SessionOff
    /\ emb = [pc |-> "off"]
    /\ ing = [pc |-> "off"]
    /\ store = <<>>
    /\ progress = [exists |-> FALSE, content |-> <<>>, writes |-> <<>>]
    /\ poll = <<>>
    /\ db = [pc |-> "off"]
    /\ \E chunk \in MetaChunks :
          fn = [pc |-> "call", chunks |-> <<chunk>>, metadatas |-> <<>>]

MetaPrepare ==
    /\ fn.pc = "call"
    /\ fn' = [fn EXCEPT !.pc = "done", !.metadatas = PreparedMetadatas(fn.chunks)]
    /\ UNCHANGED <<sessionVars, q, ctx, emb, ingestVars, db, web>>

SpecMeta == InitMeta /\ [][MetaPrepare]_vars

-----------------------------------------------------------------------------
(* Properties of the metadata of add_chunks (SpecMeta) *)

Scalars == {"str", "int", "float", "bool"}

(* C31: every metadata map handed to the store is flat: each value is a
   string, a number or a boolean, a dict or a list having been replaced by
   its string form, and neither 'text' nor 'embedding' is a key of it. *)
C31_FlatMetadata ==
    fn.pc = "done" =>
        \A k \in 1..Len(fn.metadatas) :
            /\ "text" \notin DOMAIN fn.metadatas[k]
            /\ "embedding" \notin DOMAIN fn.metadatas[k]
            /\ DOMAIN fn.metadatas[k]
                   = DOMAIN fn.chunks[1] \ {"text", "embedding"}
            /\ \A key \in DOMAIN fn.metadatas[k] :
                   /\ fn.metadatas[k][key].type \in Scalars
                   /\ fn.metadatas[k][key].repr = fn.chunks[1][key].repr
                   /\ fn.chunks[1][key].type \in Scalars
                          => fn.metadatas[k][key] = fn.chunks[1][key]

(* a chunk with an embedding and a page_metadata list of dicts was given
   its metadata *)
C31_Witness ==
    /\ fn.pc = "done"
    /\ Len(fn.metadatas) = 1
    /\ {"embedding", "page_metadata"} \subseteq DOMAIN fn.chunks[1]
    /\ fn.chunks[1].page_metadata.type = "list"
    /\ fn.metadatas[1].page_metadata = PyValue("str", "[{'page_number': 1}]")

-----------------------------------------------------------------------------
(* Properties of the relevance filter (SpecQuery) *)

(* C32: the documents retrieve_documents keeps are a prefix of the store's
   ranked results: a result is never kept while one ranked ahead of it is
   dropped.  Violated: the ranking is by distance, nearest first, and the
   filter keeps the scores above the threshold, so it drops the head of the
   list and keeps its tail. *)
C32_KeptIsPrefix ==
    q.pc \in {"context", "generate", "done"} =>
        /\ IsRanked(q.storeResults)
        /\ Len(q.documents) <= Len(q.storeResults)
        /\ q.documents = SubSeq(q.storeResults, 1, Len(q.documents))

-----------------------------------------------------------------------------
(* Properties of the order of work in a run (SpecIngest) *)

(* C33: the files of a run are handled one at a time in input order: the
   stage operations are grouped by file, in the order of the files; the
   operations of one file are extract, split, embed, store in that order,
   each at most once, and none follows a failed one; nothing is done for a
   file the loop has not reached. *)
C33_OneFileAtATime ==
    ing.pc # "off" =>
        /\ \A i, j \in 1..Len(ing.ops) :
               i < j => ing.ops[i].file_index <= ing.ops[j].file_index
        /\ \A i \in 1..Len(ing.ops) :
               /\ ing.ops[i].file_index \in 0..(Len(ing.existing_files) - 1)
               /\ ing.ops[i].file_index <= ing.file_index
        /\ \A k \in 0..(Len(ing.existing_files) - 1) :
               LET F == FileOps(k)
               IN  /\ Len(F) <= 4
                   /\ \A j \in 1..Len(F) : F[j].op = Stages[j]
                   /\ \A j \in 1..(Len(F) - 1) : F[j].outcome # "raise"
        /\ \A i \in 1..Len(ing.adds) :
               ing.adds[i].path = ing.existing_files[ing.adds[i].file_index + 1]

(* three files were handled; the extraction of the second failed and it
   was not taken up again *)
C33_Witness ==
    /\ ing.pc = "done"
    /\ Len(ing.existing_files) = 3
    /\ FileOps(1) = <<[op |-> "extract", file_index |-> 1, outcome |-> "raise"]>>
    /\ Len(FileOps(0)) = 4
    /\ Len(FileOps(2)) = 4

-----------------------------------------------------------------------------
(* Properties of the percentages of a run (SpecIngest) *)

(* C34: every progress record of a run, written or about to be written,
   has a percentage from 0 to 100, and the percentage never goes down from
   one write to the next. *)
C34_PercentageMonotone ==
    ing.pc # "off" =>
        LET W == progress.writes \o ing.pending
        IN  /\ \A i \in 1..Len(W) : W[i].rec.percentage \in 0..100
            /\ \A i \in 1..(Len(W) - 1) :
                   W[i].rec.percentage <= W[i + 1].rec.percentage

(* a run given three paths, one of them missing: the first file failed
   after its 'storing' record, the second was stored, and the last record
   jumps to 100 *)
C34_Witness ==
    /\ ing.pc = "done"
    /\ ing.total_files = 3
    /\ Len(ing.existing_files) = 2
    /\ ing.ret = TRUE
    /\ StageEvents(0) = <<"extracting", "chunking", "embedding", "storing">>
    /\ progress.writes[Len(progress.writes) - 1].rec.percentage < 100
    /\ progress.writes[Len(progress.writes)].rec.percentage = 100

-----------------------------------------------------------------------------
(* Properties of the generation request (SpecQuery) *)

(* C35: the request sent to the generation service is the system
   instruction, then the turns of the history given to the query, in order
   and as they are, then one user turn holding the query: history length
   plus 2 turns; the history is as it was given. *)
C35_RequestShape ==
    q.pc \in {"result", "done"} =>
        /\ q.chat_history \in QueryHistories
        /\ \A i \in 1..Len(q.requests) :
               LET messages == q.requests[i]
                   n == Len(messages)
               IN  /\ n = Len(q.chat_history) + 2
                   /\ messages[1] = [role |-> "system", content |-> system_prompt]
                   /\ SubSeq(messages, 2, n - 1) = q.chat_history
                   /\ messages[n].role = "user"
                   /\ Contains(messages[n].content, "USER QUESTION: " \o q.query)
                   /\ \A k \in 1..(n - 1) :
                          ~Contains(messages[k].content, "USER QUESTION: ")

(* a query with two prior turns and a context was sent to the generation
   service *)
C35_Witness ==
    /\ q.pc = "done"
    /\ Len(q.chat_history) = 2
    /\ Len(q.requests) = 1
    /\ Len(q.requests[1]) = 4
    /\ HasContext(q.context)
    /\ q.requests[1][2] = UserTurn("q0")
    /\ q.requests[1][3] = AssistantTurn("re:q0")

-----------------------------------------------------------------------------
(* Properties of the processedFiles field (SpecIngest) *)

(* the number of files with index below k that the run has stored *)
StoredBefore(k) ==
    Cardinality({i \in 1..Len(ing.adds) :
                     ing.adds[i].success /\ ing.adds[i].file_index < k})

(* C36: processedFiles of every progress record is the number of files
   stored when it was written: the files stored before the current one in a
   stage record, those up to and including it in a completed_file record,
   all stored files in the final 'completed' record; it never exceeds
   totalFiles. *)
C36_ProcessedIsStored ==
    ing.pc # "off" =>
        \A i \in 1..Len(progress.writes) :
            LET w == progress.writes[i]
            IN  /\ w.rec.processedFiles <= w.rec.totalFiles
                /\ w.rec.currentStage
                       \in {"extracting", "chunking", "embedding", "storing"}
                   => w.rec.processedFiles = StoredBefore(w.file_index)
                /\ w.rec.currentStage = "completed_file"
                   => w.rec.processedFiles = StoredBefore(w.file_index + 1)
                /\ w.rec.status = "completed"
                   => w.rec.processedFiles = StoredBefore(Len(ing.file_paths))

-----------------------------------------------------------------------------
(* The upload sessions of the web server (web_server.py)

   web.current is the global current_upload_session: 0 for None, else the
   session id of the dictionary it refers to; web.status[s] is the 'status'
   entry of the dictionary made for session s; web.worker[s] is the
   position of the thread started for s; web.writes logs which worker set
   the status of which dictionary. *)

MaxUploads == 3

SessionIds == 1..MaxUploads

RunOutcomes == {"true", "false", "raise"}

InitUpload ==
    /\ SessionOff
    /\ nSends = 0
    /\ nFaults = 0
    /\ q = [pc |-> "off"]
    /\ ctx = [pc |-> "off"]
    /\ emb = [pc |-> "off"]
    /\ IngestOff
    /\ web = [pc |-> "serving",
              current |-> 0,
              status |-> <<>>,
              worker |-> <<>>,
              writes |-> <<>>,
              polls |-> <<>>]

(* lines 262-306: the request makes a session id, rebinds the global to a
   new dictionary with status 'processing', starts the worker thread and
   returns *)
UploadRequest ==
    /\ web.pc = "serving"
    /\ Len(web.status) < MaxUploads
    /\ LET session_id == Len(web.status) + 1
       IN  web' = [web EXCEPT
                       !.current = session_id,
                       !.status = Append(@, "processing"),
                       !.worker = Append(@, [pc |-> "run", status |-> "None"])]
    /\ UNCHANGED <<sessionVars, q, ctx, emb, ingestVars, db, fn>>

(* lines 281-301: process_uploaded_files returns or raises; each of the
   three branches goes on to set the same way 'completed' or 'error' *)
WorkerRun(s, outcome) ==
    /\ web.pc = "serving"
    /\ s \in 1..Len(web.worker)
    /\ web.worker[s].pc = "run"
    /\ web' = [web EXCEPT
                   !.worker[s] =
                       [pc |-> "check",
                        status |-> IF outcome = "true" THEN "completed"
                                                       ELSE "error"]]
    /\ UNCHANGED <<sessionVars, q, ctx, emb, ingestVars, db, fn>>

(* lines 290, 295, 300: the test reads the global and compares its
   session id with the worker's own *)
WorkerCheck(s) ==
    /\ web.pc = "serving"
    /\ s \in 1..Len(web.worker)
    /\ web.worker[s].pc = "check"
    /\ web' = [web EXCEPT
                   !.worker[s].pc =
                       IF web.current # 0 /\ web.current = s
                       THEN "write" ELSE "done"]
    /\ UNCHANGED <<sessionVars, q, ctx, emb, ingestVars, db, fn>>

(* lines 291, 296, 301: the assignment reads the global again and sets
   'status' in the dictionary it refers to at that moment *)
WorkerWrite(s) ==
    /\ web.pc = "serving"
    /\ s \in 1..Len(web.worker)
    /\ web.worker[s].pc = "write"
    /\ web' = [web EXCEPT
                   !.status[web.current] = web.worker[s].status,
                   !.writes = Append(@, [worker |-> s,
                                         session |-> web.current]),
                   !.worker[s].pc = "done"]
    /\ UNCHANGED <<sessionVars, q, ctx, emb, ingestVars, db, fn>>

(* lines 326-336: a poll finds the session only while the global refers
   to it *)
UploadProgress(session_id) ==
    /\ web.pc = "serving"
    /\ web.polls = <<>>
    /\ web' = [web EXCEPT
                   !.polls = <<[session_id |-> session_id,
                                found |-> (web.current # 0
                                           /\ web.current = session_id)]>>]
    /\ UNCHANGED <<sessionVars, q, ctx, emb, ingestVars, db, fn>>

NextUpload ==
    \/ UploadRequest
    \/ \E s \in SessionIds, outcome \in RunOutcomes : WorkerRun(s, outcome)
    \/ \E s \in SessionIds : WorkerCheck(s)
    \/ \E s \in SessionIds : WorkerWrite(s)
    \/ \E session_id \in SessionIds : UploadProgress(session_id)

SpecUpload == InitUpload /\ [][NextUpload]_vars

(* C37: a worker sets the status only of the session it was started for:
   every status assignment made by a worker lands in its own session's
   record, so a session still being processed is never marked 'completed'
   or 'error' by the worker of an older one. *)
C37_OwnSessionOnly ==
    web.pc = "serving" =>
        /\ \A i \in 1..Len(web.writes) :
               web.writes[i].session = web.writes[i].worker
        /\ \A s \in 1..Len(web.status) :
               web.worker[s].pc \in {"run", "check"}
               => web.status[s] = "processing"

-----------------------------------------------------------------------------
(* Properties of failed sends (Spec) *)

Apologies == {GenApology, QueryApology}

(* C38: a send that reached the orchestrator adds one user turn and one
   assistant turn to the history, the assistant turn holding the apology
   when the query or the generation failed; the whole stored history, the
   apology turns included, is among the prior turns of the next generation
   request; no send that reached the orchestrator returns with the history
   as it was, and a send that failed to initialise leaves it as it was. *)
C38_FailedSendStored ==
    /\ lastOp.op # "send_except"
    /\ (AllIdle /\ lastOp.op = "send_init_error") => chat_history = lastOp.pre
    /\ (AllIdle /\ lastOp.op = "send")
       => /\ Len(chat_history) = Min(Len(lastOp.pre) + 2, max_history)
          /\ chat_history[Len(chat_history)] = AssistantTurn(lastOp.ret)
          /\ chat_history[Len(chat_history) - 1].role = "user"
    /\ \A c \in Callers :
           /\ pc[c] = "trim"
              => chat_history = histAtCall[c]
                                \o <<UserTurn(message[c]),
                                     AssistantTurn(answer[c])>>
           /\ pc[c] = "append_user"
              => LET messages == GenerationRequest(message[c], "",
                                                   orchHistory[c])
                 IN  SubSeq(messages, 2, Len(messages) - 1) = chat_history

(* a send is in flight whose generation request replays the apology of an
   earlier send that failed *)
C38_Witness ==
    \E c \in Callers :
        /\ pc[c] = "append_user"
        /\ \E i \in 1..Len(orchHistory[c]) :
               /\ orchHistory[c][i].role = "assistant"
               /\ orchHistory[c][i].content \in Apologies
        /\ chat_history = orchHistory[c]

-----------------------------------------------------------------------------
(* Sends in flight at the same time on the one global session
   (web_server.py serves every request from get_chat_manager()) *)

MaxInFlight == 2    \* send requests per run of SpecConcurrent

(* web_server.py lines 76-95, chat_functions.py lines 160-172: a request
   thread calls send_message on the global manager, whatever the other
   request threads are doing *)
ApiSendMessage(c) ==
    /\ pc[c] = "idle"
    /\ nSends < MaxInFlight
    /\ nSends' = nSends + 1
    /\ message' = [message EXCEPT ![c] = Msg(nSends + 1)]
    /\ histAtCall' = [histAtCall EXCEPT ![c] = chat_history]
    /\ pc' = [pc EXCEPT ![c] = "init"]
    /\ UNCHANGED <<chat_history, retrieval_system, vector_database, answer,
                   orchHistory, lastOp, exchanges, nFaults, q, ctx, emb,
                   ingestVars, callVars>>

NextConcurrent ==
    \E c \in Callers :
        \/ ApiSendMessage(c)
        \/ SendInit(c)
        \/ SendQuery(c)
        \/ SendAppendUser(c)
        \/ SendAppendAssistant(c)
        \/ SendTrim(c)

SpecConcurrent == Init /\ [][NextConcurrent]_vars

(* the exchange <<message, answer>> stands in h as a user turn directly
   followed by its assistant turn *)
HoldsExchange(h, e) ==
    \E i \in 1..(Len(h) - 1) :
        /\ h[i] = UserTurn(e[1])
        /\ h[i + 1] = AssistantTurn(e[2])

(* C39: once the sends of a run have returned, also when two of them were
   in flight together, the history holds the exchange of each send that
   returned an answer and alternates user, assistant, user, assistant
   (as long as nothing had to be trimmed). *)
C39_ConcurrentSendsKept ==
    (AllIdle /\ 2 * Len(exchanges) <= max_history) =>
        /\ Len(chat_history) = 2 * Len(exchanges)
        /\ \A i \in 1..Len(exchanges) : HoldsExchange(chat_history, exchanges[i])
        /\ \A i \in 1..Len(chat_history) :
               chat_history[i].role =
                   (IF i % 2 = 1 THEN "user" ELSE "assistant")

====
